---- MODULE Spec2Model ----
(***************************************************************************)
(* Patch-application engine of headless-cline (crates/cline-core,          *)
(* services/diff): the NewUnified and SearchReplace strategies, the search *)
(* engine, the edit engine and the git-backed fallback.                    *)
(*                                                                         *)
(* Text is a sequence of one-character strings; a line is a text without   *)
(* "\n".  f64 values are exact rationals <<num, den>> (den > 0), with NaN  *)
(* as <<0, 0>>; every comparison the code makes is made on them.           *)
(* A Rust panic (slice out of range, arithmetic overflow in a build with   *)
(* overflow checks) is the outcome "fault".                                *)
(***************************************************************************)
EXTENDS Integers, Sequences, FiniteSets, TLC

\* ------------------------------------------------------------------ text

NL == "\n"

IsWhitespace(c) == c \in {" ", "\n", "\t"}

MinOf(S) == CHOOSE x \in S : \A y \in S : x <= y

MaxOf(S) == CHOOSE x \in S : \A y \in S : x >= y

\* seq[from..to] of Rust: 0-based, half-open.
Slice(s, from, to) == SubSeq(s, from + 1, to)

StartsWith(s, p) == Len(s) >= Len(p) /\ SubSeq(s, 1, Len(p)) = p

\* str::find: the 0-based offset of the first occurrence, -1 for None.
FirstOf(cands) == IF cands = {} THEN -1 ELSE MinOf(cands)

Find(hay, needle) ==
    FirstOf({i \in 0..(Len(hay) - Len(needle)) :
                SubSeq(hay, i + 1, i + Len(needle)) = needle})

RECURSIVE SplitAt(_, _)
SplitAt(s, k) ==
    IF k = -1 THEN <<s>>
    ELSE <<SubSeq(s, 1, k)>>
         \o SplitAt(SubSeq(s, k + 2, Len(s)), Find(SubSeq(s, k + 2, Len(s)), <<NL>>))

\* The pieces of s between its "\n" characters.
SplitNL(s) == SplitAt(s, Find(s, <<NL>>))

DropFinalEmpty(p) == IF p[Len(p)] = <<>> THEN SubSeq(p, 1, Len(p) - 1) ELSE p

\* str::lines: split at "\n"; a final empty piece is no line.
Lines(s) == DropFinalEmpty(SplitNL(s))

RECURSIVE Join(_)
Join(ls) ==
    IF ls = <<>> THEN <<>>
    ELSE IF Len(ls) = 1 THEN ls[1]
    ELSE ls[1] \o <<NL>> \o Join(Tail(ls))

\* --------------------------------------------------------------- numbers

NaN == <<0, 0>>

IsNaN(a) == a[2] = 0

RECURSIVE Gcd(_, _)
Gcd(a, b) == IF b = 0 THEN a ELSE Gcd(b, a % b)

Abs(n) == IF n < 0 THEN -n ELSE n

Reduce(n, d, g) == <<n \div g, d \div g>>

Rat(n, d) == IF n = 0 THEN <<0, 1>> ELSE Reduce(n, d, Gcd(Abs(n), d))

RZero == Rat(0, 1)

ROne == Rat(1, 1)

RLt(a, b) == ~IsNaN(a) /\ ~IsNaN(b) /\ a[1] * b[2] < b[1] * a[2]

RGt(a, b) == RLt(b, a)

RGe(a, b) == ~IsNaN(a) /\ ~IsNaN(b) /\ a[1] * b[2] >= b[1] * a[2]

RLe(a, b) == RGe(b, a)

REq(a, b) == ~IsNaN(a) /\ ~IsNaN(b) /\ a[1] * b[2] = b[1] * a[2]

RAdd(a, b) ==
    IF IsNaN(a) \/ IsNaN(b) THEN NaN
    ELSE Rat(a[1] * b[2] + b[1] * a[2], a[2] * b[2])

RSub(a, b) ==
    IF IsNaN(a) \/ IsNaN(b) THEN NaN
    ELSE Rat(a[1] * b[2] - b[1] * a[2], a[2] * b[2])

RMul(a, b) ==
    IF IsNaN(a) \/ IsNaN(b) THEN NaN ELSE Rat(a[1] * b[1], a[2] * b[2])

\* n as f64 / d as f64
RDiv(n, d) == IF d = 0 THEN NaN ELSE Rat(n, d)

\* f64::min and f64::max: a NaN operand is ignored.
RMin(a, b) == IF IsNaN(a) THEN b ELSE IF IsNaN(b) THEN a ELSE IF RLt(b, a) THEN b ELSE a

RMax(a, b) == IF IsNaN(a) THEN b ELSE IF IsNaN(b) THEN a ELSE IF RGt(b, a) THEN b ELSE a

\* ----------------------------------------------------- strsim distances

Min3(x, y, z) == MinOf({x, y, z})

\* One row of the Levenshtein table: row[i + 1] is the distance between
\* the first i characters of a and the prefix of b that ends at c.
RECURSIVE LevRow(_, _, _, _)
LevRow(prev, a, c, acc) ==
    LET i == Len(acc)
    IN IF i > Len(a) THEN acc
       ELSE LET cell == Min3(prev[i + 1] + 1,
                             acc[i] + 1,
                             prev[i] + (IF a[i] = c THEN 0 ELSE 1))
            IN IF cell >= 0 THEN LevRow(prev, a, c, Append(acc, cell)) ELSE acc

RECURSIVE LevRows(_, _, _, _)
LevRows(prev, a, b, j) ==
    IF j > Len(b) THEN prev[Len(a) + 1]
    ELSE LET row == LevRow(prev, a, b[j], <<j>>)
         IN IF Len(row) > 0 THEN LevRows(row, a, b, j + 1) ELSE 0

Levenshtein(a, b) == LevRows([i \in 1..(Len(a) + 1) |-> i - 1], a, b, 1)

\* strsim::normalized_levenshtein
NormalizedLevenshtein(a, b) ==
    IF a = <<>> /\ b = <<>> THEN ROne
    ELSE LET m == IF Len(a) >= Len(b) THEN Len(a) ELSE Len(b)
         IN Rat(m - Levenshtein(a, b), m)

\* ------------------------------------------------------- the edit model

Context == "Context"

Add == "Add"

Remove == "Remove"

IsChange(c) == c.change_type \in {Add, Remove}

HasChange(changes) == \E k \in 1..Len(changes) : IsChange(changes[k])

\* ---------------------------------------------------- parse_unified_diff

MAX_CONTEXT_LINES == 6

\* content.matches(char::is_whitespace).next(): the first whitespace
\* character of the text, wherever it stands; "" when there is none.
FirstWhitespace(content) ==
    LET ws == {k \in 1..Len(content) : IsWhitespace(content[k])}
    IN IF ws = {} THEN <<>> ELSE <<content[MinOf(ws)]>>

\* The Change built from one line of a hunk body (the line is not empty).
ParseChange(line) ==
    LET content == Tail(line)
        indent == FirstWhitespace(content)
        trimmed == Slice(content, Len(indent), Len(content))
        first == line[1]
    IN [change_type |-> IF first = "+" THEN Add
                        ELSE IF first = "-" THEN Remove ELSE Context,
        content |-> IF first \in {" ", "+", "-"} THEN trimmed
                    ELSE <<" ">> \o trimmed,
        indent |-> indent,
        original_line |-> content]

\* A finished hunk cut to MAX_CONTEXT_LINES of context on each side.
TrimHunk(changes) ==
    LET idx == {j \in 0..(Len(changes) - 1) : changes[j + 1].change_type # Context}
        first == MinOf(idx)
        last == MaxOf(idx)
        start_idx == IF first >= MAX_CONTEXT_LINES THEN first - MAX_CONTEXT_LINES ELSE 0
        end_idx == IF last + MAX_CONTEXT_LINES <= Len(changes) - 1
                   THEN last + MAX_CONTEXT_LINES ELSE Len(changes) - 1
    IN Slice(changes, start_idx, end_idx + 1)

\* The loop over the lines from the first "@@" on.  acc.current is the open
\* hunk; acc.fault is set when line[1..] is taken of an empty line.
RECURSIVE ParseLoop(_, _, _)
ParseLoop(lines, k, acc) ==
    IF k > Len(lines) \/ acc.fault THEN acc
    ELSE LET line == lines[k]
         IN IF StartsWith(line, <<"@", "@">>)
            THEN ParseLoop(lines, k + 1,
                    [acc EXCEPT
                       !.hunks = IF acc.open /\ HasChange(acc.current)
                                 THEN Append(@, TrimHunk(acc.current)) ELSE @,
                       !.open = TRUE,
                       !.current = <<>>])
            ELSE IF ~acc.open THEN ParseLoop(lines, k + 1, acc)
            ELSE IF line = <<>> THEN [acc EXCEPT !.fault = TRUE]
            ELSE ParseLoop(lines, k + 1,
                    [acc EXCEPT !.current = Append(@, ParseChange(line))])

\* parse_unified_diff: [fault, hunks]; a hunk is its sequence of changes.
\* The hunk left open at the end of the diff is pushed as it is.
ParseFinish(acc) ==
    [fault |-> acc.fault,
     hunks |-> IF acc.fault THEN <<>>
               ELSE IF acc.open /\ HasChange(acc.current)
                    THEN Append(acc.hunks, acc.current) ELSE acc.hunks]

FirstHeader(lines, heads) == IF heads = {} THEN Len(lines) + 1 ELSE MinOf(heads)

ParseLines(lines) ==
    ParseFinish(
        ParseLoop(lines,
                  FirstHeader(lines, {k \in 1..Len(lines) :
                                        StartsWith(lines[k], <<"@", "@">>)}),
                  [fault |-> FALSE, hunks |-> <<>>, open |-> FALSE, current |-> <<>>]))

ParseUnifiedDiff(diff) == ParseLines(Lines(diff))

\* ------------------------------------------------------------ split_hunk

SPLIT_CONTEXT_LINES == 3

RECURSIVE SplitLoop(_, _, _)
SplitLoop(changes, k, st) ==
    IF k > Len(changes) THEN st
    ELSE LET change == changes[k]
         IN IF change.change_type = Context
            THEN IF ~st.open
                 THEN LET cb == Append(st.context_before, change)
                      IN SplitLoop(changes, k + 1,
                            [st EXCEPT !.context_before =
                                IF Len(cb) > SPLIT_CONTEXT_LINES THEN Tail(cb) ELSE cb])
                 ELSE LET ca == Append(st.context_after, change)
                      IN IF Len(ca) > SPLIT_CONTEXT_LINES
                         THEN SplitLoop(changes, k + 1,
                                 [st EXCEPT !.result = Append(@, st.current \o ca),
                                            !.open = FALSE,
                                            !.current = <<>>,
                                            !.context_before = ca,
                                            !.context_after = <<>>])
                         ELSE SplitLoop(changes, k + 1,
                                 [st EXCEPT !.context_after = ca])
            ELSE IF ~st.open
                 THEN SplitLoop(changes, k + 1,
                         [st EXCEPT !.open = TRUE,
                                    !.current = Append(st.context_before, change),
                                    !.context_after = <<>>])
                 ELSE SplitLoop(changes, k + 1,
                         [st EXCEPT !.current = Append(@ \o st.context_after, change),
                                    !.context_after = <<>>])

\* split_hunk without its last sub-hunk, the one still open when the
\* changes end.
SplitFinishDropsOpen(st) == st.result

\* split_hunk: the sub-hunks of a hunk, in order.
SplitFinish(st) ==
    IF st.open THEN Append(st.result, st.current \o st.context_after)
    ELSE st.result

SplitHunk(changes) ==
    SplitFinish(SplitLoop(changes, 1,
                   [result |-> <<>>, open |-> FALSE, current |-> <<>>,
                    context_before |-> <<>>, context_after |-> <<>>]))

\* --------------------------------------------------------- search engine

LARGE_FILE_THRESHOLD == 1000

DEFAULT_OVERLAP_SIZE == 3

MAX_WINDOW_SIZE == 500

\* UNIQUE_CONTENT_BOOST = 0.05
UNIQUE_CONTENT_BOOST == Rat(5, 100)

\* The largest usize.  Only its order matters here: it is larger than any
\* length the model reaches.
UsizeMax == 2147483647

\* a - b on usize in a build without overflow checks.
WrappingSub(a, b) == IF a >= b THEN a - b ELSE UsizeMax - (b - a) + 1

SaturatingSub(a, b) == IF a >= b THEN a - b ELSE 0

PreImage(changes) ==
    SelectSeq(changes, LAMBDA c : c.change_type \in {Context, Remove})

PostImage(changes) ==
    SelectSeq(changes, LAMBDA c : c.change_type \in {Context, Add})

OriginalLines(changes) == [k \in 1..Len(changes) |-> changes[k].original_line]

\* prepare_search_string
PrepareSearchString(changes) == Join(OriginalLines(PreImage(changes)))

EvaluateSimilarity(original, modified) == NormalizedLevenshtein(original, modified)

GetAdaptiveThreshold(content_length, base_threshold) ==
    IF content_length <= LARGE_FILE_THRESHOLD THEN base_threshold
    ELSE RMax(RSub(base_threshold, Rat(7, 100)), Rat(8, 10))

\* Regex::new(escape(line)).find_iter(text).count(): the non-overlapping
\* occurrences from the left; the empty pattern matches at every offset.
RECURSIVE CountFrom(_, _, _)
CountFrom(pattern, text, k) ==
    IF k = -1 THEN 0
    ELSE 1 + CountFrom(pattern, SubSeq(text, k + Len(pattern) + 1, Len(text)),
                       Find(SubSeq(text, k + Len(pattern) + 1, Len(text)), pattern))

CountMatches(pattern, text) ==
    IF pattern = <<>> THEN Len(text) + 1 ELSE CountFrom(pattern, text, Find(text, pattern))

\* .take(3).count().checked_sub(1) is Some(m) with m <= 1
FewMatches(count) == (IF count > 3 THEN 3 ELSE count) \in {1, 2}

LineSet(ls) == {ls[k] : k \in 1..Len(ls)}

UniqueRatio(unique_lines, content_str) ==
    RDiv(Cardinality({line \in unique_lines :
                         FewMatches(CountMatches(line, content_str))}),
         Cardinality(unique_lines))

EvaluateContentUniqueness(search_str, content) ==
    UniqueRatio(LineSet(Lines(search_str)), Join(content))

ContextScore(similarity, threshold, uniqueness_boost) ==
    IF RLt(similarity, threshold)
    THEN RAdd(RMul(similarity, Rat(3, 10)), uniqueness_boost)
    ELSE RAdd(similarity, uniqueness_boost)

ValidateContextLines(search_str, content, threshold) ==
    ContextScore(
        EvaluateSimilarity(
            Join(SelectSeq(Lines(search_str), LAMBDA line : ~StartsWith(line, <<"-">>))),
            content),
        GetAdaptiveThreshold(Len(Lines(content)), threshold),
        RMul(EvaluateContentUniqueness(search_str, Lines(content)),
             UNIQUE_CONTENT_BOOST))

\* search_size.max(search_size.min(MAX_WINDOW_SIZE) * 2)
EffectiveWindowSize(search_size) ==
    MaxOf({search_size, MinOf({search_size, MAX_WINDOW_SIZE}) * 2})

\* (effective_window_size - overlap_size.min(effective_window_size - 1)).max(1),
\* the subtractions wrapping.
StepSize(effective_window_size) ==
    MaxOf({1, WrappingSub(effective_window_size,
                          MinOf({DEFAULT_OVERLAP_SIZE,
                                 WrappingSub(effective_window_size, 1)}))})

\* The windows at 0, step_size, 2 * step_size, ... that are long enough, each
\* <<lines, start>>.
WindowsOf(content, search_size, effective_window_size, step_size) ==
    SelectSeq([k \in 1..(IF content = <<>> THEN 0
                         ELSE (Len(content) - 1) \div step_size + 1) |->
                 <<Slice(content, (k - 1) * step_size,
                         MinOf({Len(content),
                                (k - 1) * step_size + effective_window_size})),
                   (k - 1) * step_size>>],
              LAMBDA w : Len(w[1]) >= search_size)

\* create_overlapping_windows with overlap_size = None: [fault, windows].
\* checks: the build checks arithmetic overflow.
CreateOverlappingWindows(content, search_size, checks) ==
    IF EffectiveWindowSize(search_size) = 0 /\ checks
    THEN [fault |-> TRUE, windows |-> <<>>]
    ELSE [fault |-> FALSE,
          windows |-> WindowsOf(content, search_size,
                                EffectiveWindowSize(search_size),
                                StepSize(EffectiveWindowSize(search_size)))]

NoMatch(strategy) == [fault |-> FALSE, index |-> -1, confidence |-> RZero, strategy |-> strategy]

Faulted(strategy) == [fault |-> TRUE, index |-> -1, confidence |-> RZero, strategy |-> strategy]

\* if confidence > best_result.confidence { best_result = ... }
Better(confidence, index, strategy, best) ==
    IF RGt(confidence, best.confidence)
    THEN [fault |-> FALSE, index |-> index, confidence |-> confidence,
          strategy |-> strategy]
    ELSE best

\* One window of find_exact_match.  The offset find returns counts
\* characters of the joined window; the code uses it as a line index.
ExactStep(window, window_index, search_str, n, exact_match, start_index, threshold, best) ==
    IF exact_match = -1 THEN best
    ELSE IF exact_match + n > Len(window) THEN Faulted("exact")
    ELSE Better(RMin(EvaluateSimilarity(
                         search_str, Join(Slice(window, exact_match, exact_match + n))),
                     ValidateContextLines(
                         search_str, Join(Slice(window, exact_match, exact_match + n)),
                         threshold)),
                start_index + window_index + exact_match, "exact", best)

RECURSIVE ExactLoop(_, _, _, _, _, _)
ExactLoop(windows, k, search_str, start_index, threshold, best) ==
    IF k > Len(windows) \/ best.fault THEN best
    ELSE ExactLoop(windows, k + 1, search_str, start_index, threshold,
                   ExactStep(windows[k][1], windows[k][2], search_str,
                             Len(Lines(search_str)),
                             Find(Join(windows[k][1]), search_str),
                             start_index, threshold, best))

ExactOver(w, search_str, start_index, threshold) ==
    IF w.fault THEN Faulted("exact")
    ELSE ExactLoop(w.windows, 1, search_str, start_index, threshold, NoMatch("exact"))

FindExactMatch(search_str, content, start_index, threshold, checks) ==
    ExactOver(CreateOverlappingWindows(Slice(content, start_index, Len(content)),
                                       Len(Lines(search_str)), checks),
              search_str, start_index, threshold)

\* One position of find_similarity_match.
SimilarityStep(score, search_str, window_str, threshold, i, best) ==
    IF RGt(score, best.confidence) /\ RGe(score, threshold)
    THEN Better(RMin(score, ValidateContextLines(search_str, window_str, threshold)),
                i, "similarity", best)
    ELSE best

RECURSIVE SimilarityLoop(_, _, _, _, _, _, _)
SimilarityLoop(i, last, n, search_str, content, threshold, best) ==
    IF i >= last THEN best
    ELSE SimilarityLoop(i + 1, last, n, search_str, content, threshold,
            SimilarityStep(EvaluateSimilarity(search_str, Join(Slice(content, i, i + n))),
                           search_str, Join(Slice(content, i, i + n)), threshold, i,
                           best))

\* The range ends at content.len().saturating_sub(search_lines.len() - 1).
SimilarityOver(n, search_str, content, start_index, threshold, checks) ==
    IF n = 0 /\ checks THEN Faulted("similarity")
    ELSE SimilarityLoop(start_index, SaturatingSub(Len(content), WrappingSub(n, 1)), n,
                        search_str, content, threshold, NoMatch("similarity"))

FindSimilarityMatch(search_str, content, start_index, threshold, checks) ==
    SimilarityOver(Len(Lines(search_str)), search_str, content, start_index, threshold,
                   checks)

\* The loop of find_best_match: a later result wins only with a strictly
\* larger confidence.
PickBest(exact, similar) ==
    IF exact.fault THEN Faulted("exact")
    ELSE IF similar.fault THEN Faulted("similarity")
    ELSE Better(similar.confidence, similar.index, similar.strategy,
                Better(exact.confidence, exact.index, exact.strategy, NoMatch("none")))

\* find_best_match
FindBestMatch(search_str, content, start_index, threshold, checks) ==
    PickBest(FindExactMatch(search_str, content, start_index, threshold, checks),
             FindSimilarityMatch(search_str, content, start_index, threshold, checks))

\* validate_edit_result
HunkText(changes) ==
    Join([k \in 1..Len(changes) |-> changes[k].indent \o changes[k].content])

EditScore(similarity, original_similarity) ==
    IF RGt(original_similarity, Rat(97, 100)) /\ ~REq(similarity, ROne)
    THEN RMul(Rat(8, 10), similarity)
    ELSE similarity

ValidateEditResult(changes, result) ==
    EditScore(EvaluateSimilarity(HunkText(PostImage(changes)), result),
              EvaluateSimilarity(HunkText(PreImage(changes)), result))

\* ----------------------------------------------------------- edit engine

EditFault(strategy) ==
    [fault |-> TRUE, confidence |-> RZero, result |-> <<>>, strategy |-> strategy]

\* The lines one Add change emits: a line that holds a whitespace character
\* is emitted as it is, any other line after the change's indent.
IndentLines(ls, indent) ==
    [k \in 1..Len(ls) |->
        IF FirstWhitespace(ls[k]) # <<>> THEN ls[k] ELSE indent \o ls[k]]

AddedLines(change) == IndentLines(Lines(change.content), change.indent)

\* One change of the loop of apply_context_matching.
ContextStep(change, content, st) ==
    IF change.change_type = Context
    THEN [new_result |->
             Append(st.new_result,
                    IF st.source_index < Len(content)
                    THEN content[st.source_index + 1]
                    ELSE change.indent \o change.content),
          source_index |-> st.source_index + 1]
    ELSE IF change.change_type = Add
    THEN [st EXCEPT !.new_result = @ \o AddedLines(change)]
    ELSE [st EXCEPT !.source_index = @ + Len(Lines(change.content))]

RECURSIVE ContextLoop(_, _, _, _)
ContextLoop(changes, k, content, st) ==
    IF k > Len(changes) THEN st
    ELSE ContextLoop(changes, k + 1, content, ContextStep(changes[k], content, st))

\* The end of apply_context_matching: the rest of the content is appended
\* and the text written in place of the match is validated.
ContextFinish(changes, content, match_position, st) ==
    IF st.source_index > Len(content) THEN EditFault("context")
    ELSE [fault |-> FALSE,
          confidence |->
              ValidateEditResult(changes,
                  Join(Slice(st.new_result, match_position, Len(st.new_result)))),
          result |-> st.new_result \o Slice(content, st.source_index, Len(content)),
          strategy |-> "context"]

\* apply_context_matching: [fault, confidence, result, strategy].
ApplyContextMatching(changes, content, match_position) ==
    IF match_position = -1
    THEN [fault |-> FALSE, confidence |-> RZero, result |-> content,
          strategy |-> "context"]
    ELSE IF match_position > Len(content) THEN EditFault("context")
    ELSE ContextFinish(changes, content, match_position,
            ContextLoop(changes, 1, content,
               [new_result |-> Slice(content, 0, match_position),
                source_index |-> match_position]))

\* ------------------------------------------------------------ the state

\* Option<T>: <<>> is None, <<x>> is Some(x).
None == <<>>

Some(x) == <<x>>

UnwrapOr(opt, default) == IF opt = None THEN default ELSE opt[1]

MaxCalls == 2

CallIds == 1..MaxCalls

\* The names tempdir() can draw: as many as there can be calls at a time.
DirNames == 1..MaxCalls

VARIABLES
    pc,                   \* where the apply_diff call stands
    original_content,     \* its arguments
    diff_content,
    confidence_threshold, \* NewUnifiedDiffStrategy.confidence_threshold
    build,                \* "any" until an overflow shows the build: "debug", "release"
    hunks,                \* parsed_diff.hunks
    h,                    \* the hunk of the loop, 1-based
    result,               \* the buffer of lines
    search_result,
    sub_hunks,
    sub_search_result,
    s,                    \* the sub-hunk of the inner loop, 1-based
    sub_hunk_result,
    outcome,              \* the DiffResult returned
    history,              \* what was searched and edited, in order
    calls,                \* the apply_edit calls
    dirs,                 \* of each directory name: the call that holds it, 0 if none
    files,                \* file.txt of each temporary directory
    sr,                   \* the SearchReplaceDiffStrategy::apply_diff call
    eval,                 \* a function of the engine called on its own
    cline                 \* the Cline instance and the call running on it

nuVars == <<pc, original_content, diff_content, confidence_threshold, build, hunks,
            h, result, search_result, sub_hunks, sub_search_result, s, sub_hunk_result,
            outcome, history>>

editVars == <<calls, dirs, files>>

vars == <<nuVars, editVars, sr, eval, cline>>

NoResult == [confidence |-> RZero, result |-> <<>>, strategy |-> "none"]

IdleCall ==
    [pc |-> "idle", hunk |-> <<>>, content |-> <<>>, match_position |-> -1,
     confidence |-> RZero, confidence_threshold |-> RZero, ran |-> <<>>,
     step |-> 0, temp_dir |-> 0, all_ok |-> TRUE,
     context_result |-> NoResult, result |-> NoResult]

\* A caller enters apply_edit(hunk, content, match_position, confidence,
\* confidence_threshold).
NewCall(hunk, content, match_position, confidence, threshold_opt) ==
    [IdleCall EXCEPT !.pc = "start", !.hunk = hunk, !.content = content,
                     !.match_position = match_position, !.confidence = confidence,
                     !.confidence_threshold = UnwrapOr(threshold_opt, Rat(97, 100))]

\* -------------------------------------------------------------- apply_edit

EditResult(r) ==
    [confidence |-> r.confidence, result |-> r.result, strategy |-> r.strategy]

\* apply_edit without its first test.
EditStartNoTest(c) ==
    /\ calls[c].pc = "start"
    /\ calls' = [calls EXCEPT ![c].pc = "context"]
    /\ UNCHANGED <<nuVars, dirs, files, sr, eval, cline>>

\* The first test of apply_edit: below the threshold the git fallback runs
\* at once.
EditStart(c) ==
    /\ calls[c].pc = "start"
    /\ calls' = [calls EXCEPT ![c].pc =
                    IF RLt(calls[c].confidence, calls[c].confidence_threshold)
                    THEN "git_tempdir" ELSE "context"]
    /\ UNCHANGED <<nuVars, dirs, files, sr, eval, cline>>

\* apply_context_matching and the test of its confidence.
EditContext(c) ==
    /\ calls[c].pc = "context"
    /\ \E r \in {ApplyContextMatching(calls[c].hunk, calls[c].content,
                                      calls[c].match_position)} :
          calls' = [calls EXCEPT
             ![c].ran = Append(@, "context"),
             ![c].context_result = EditResult(r),
             ![c].result = IF ~r.fault /\ RGe(r.confidence, calls[c].confidence_threshold)
                           THEN EditResult(r) ELSE @,
             ![c].pc = IF r.fault THEN "fault"
                       ELSE IF RGe(r.confidence, calls[c].confidence_threshold)
                            THEN "returned" ELSE "git_tempdir"]
    /\ UNCHANGED <<nuVars, dirs, files, sr, eval, cline>>

\* -------------------------------------------------------- apply_git_fallback

\* The steps after tempdir(), in the order of the code.
GitSteps ==
    << [kind |-> "cmd", name |-> "init"],
       [kind |-> "cmd", name |-> "config user.name"],
       [kind |-> "cmd", name |-> "config user.email"],
       [kind |-> "write", name |-> "original"],
       [kind |-> "cmd", name |-> "add"],
       [kind |-> "cmd", name |-> "commit original"],
       [kind |-> "write", name |-> "search"],
       [kind |-> "cmd", name |-> "add"],
       [kind |-> "cmd", name |-> "commit search"],
       [kind |-> "write", name |-> "replace"],
       [kind |-> "cmd", name |-> "add"],
       [kind |-> "cmd", name |-> "commit replace"],
       [kind |-> "cmd", name |-> "checkout"],
       [kind |-> "cmd", name |-> "cherry-pick"],
       [kind |-> "read", name |-> "file.txt"] >>

\* What Command::output() can give: Err (the process did not start), or Ok
\* with an exit status.  checkout and cherry-pick are handed the text that
\* `git commit` printed, which names no revision: they cannot exit with
\* success.
CmdOutcomes(name) ==
    IF name \in {"checkout", "cherry-pick"} THEN {"spawn_err", "exit_fail"}
    ELSE {"spawn_err", "exit_fail", "exit_ok"}

GitFailed(content) ==
    [confidence |-> RZero, result |-> content, strategy |-> "git-fallback"]

\* The text apply_git_fallback writes at a write step.
GitText(name, hunk, content) ==
    IF name = "original" THEN Join(content)
    ELSE IF name = "search" THEN Join(OriginalLines(PreImage(hunk)))
    ELSE Join(OriginalLines(PostImage(hunk)))

\* tempdir() creates a directory under a name that is not in use.
FreshDirs(held) == {d \in DirNames : held[d] = 0}

GitTempdir(c) ==
    /\ calls[c].pc = "git_tempdir"
    /\ \/ /\ calls' = [calls EXCEPT ![c].ran = Append(@, "git-fallback"),
                                    ![c].result = GitFailed(calls[c].content),
                                    ![c].pc = "returned"]
          /\ UNCHANGED <<dirs, files>>
       \/ \E d \in FreshDirs(dirs) :
             /\ calls' = [calls EXCEPT ![c].ran = Append(@, "git-fallback"),
                                       ![c].temp_dir = d,
                                       ![c].step = 1,
                                       ![c].pc = "git"]
             /\ dirs' = [dirs EXCEPT ![d] = c]
             /\ files' = [files EXCEPT ![d] = None]
    /\ UNCHANGED <<nuVars, sr, eval, cline>>

\* One git subprocess.  Only Err ends the call; the exit status is not read.
GitCommand(c) ==
    /\ calls[c].pc = "git"
    /\ GitSteps[calls[c].step].kind = "cmd"
    /\ \E out \in CmdOutcomes(GitSteps[calls[c].step].name) :
          calls' = [calls EXCEPT
             ![c].all_ok = @ /\ out = "exit_ok",
             ![c].result = IF out = "spawn_err" THEN GitFailed(calls[c].content) ELSE @,
             ![c].step = IF out = "spawn_err" THEN @ ELSE @ + 1,
             ![c].pc = IF out = "spawn_err" THEN "git_drop" ELSE "git"]
    /\ UNCHANGED <<nuVars, dirs, files, sr, eval, cline>>

\* fs::write(file_path, text)
GitWrite(c) ==
    /\ calls[c].pc = "git"
    /\ GitSteps[calls[c].step].kind = "write"
    /\ \/ /\ files' = [files EXCEPT ![calls[c].temp_dir] =
                          Some(GitText(GitSteps[calls[c].step].name,
                                       calls[c].hunk, calls[c].content))]
          /\ calls' = [calls EXCEPT ![c].step = @ + 1]
       \/ /\ calls' = [calls EXCEPT ![c].result = GitFailed(calls[c].content),
                                    ![c].pc = "git_drop"]
          /\ UNCHANGED files
    /\ UNCHANGED <<nuVars, dirs, sr, eval, cline>>

\* fs::read_to_string(file_path): the only place that gives confidence 1.0.
GitRead(c) ==
    /\ calls[c].pc = "git"
    /\ GitSteps[calls[c].step].kind = "read"
    /\ \/ /\ files[calls[c].temp_dir] # None
          /\ calls' = [calls EXCEPT
                ![c].result = [confidence |-> ROne,
                               result |-> Lines(files[calls[c].temp_dir][1]),
                               strategy |-> "git-fallback"],
                ![c].pc = "git_drop"]
       \/ calls' = [calls EXCEPT ![c].result = GitFailed(calls[c].content),
                                 ![c].pc = "git_drop"]
    /\ UNCHANGED <<nuVars, dirs, files, sr, eval, cline>>

\* A return that leaves the directory behind.
KeepDir(held, d) == held

\* The directory names once TempDir's Drop has removed directory d.
DropDir(held, d) == [held EXCEPT ![d] = 0]

\* temp_dir goes out of scope at the return: TempDir's Drop removes the
\* directory and what it holds.
GitDrop(c) ==
    /\ calls[c].pc = "git_drop"
    /\ dirs' = DropDir(dirs, calls[c].temp_dir)
    /\ files' = [files EXCEPT ![calls[c].temp_dir] = None]
    /\ calls' = [calls EXCEPT ![c].pc = "returned"]
    /\ UNCHANGED <<nuVars, sr, eval, cline>>

EditStep(c) ==
    \/ EditStart(c)
    \/ EditContext(c)
    \/ GitTempdir(c)
    \/ GitCommand(c)
    \/ GitWrite(c)
    \/ GitRead(c)
    \/ GitDrop(c)

\* ------------------------------------ NewUnifiedDiffStrategy::apply_diff

\* NewUnifiedDiffStrategy::new
NewThreshold(opt) == RMax(UnwrapOr(opt, ROne), Rat(8, 10))

NoOutcome == [kind |-> "none", content |-> None, error |-> ""]

Success(content) == [kind |-> "Success", content |-> Some(content), error |-> ""]

Failure(error) == [kind |-> "Failure", content |-> None, error |-> error]

\* The builds a search over search_str can be running in: an empty search
\* text makes create_overlapping_windows subtract below zero, which shows
\* whether the build checks overflow.
Checks(search_str) ==
    IF build = "any"
    THEN (IF Lines(search_str) = <<>> THEN BOOLEAN ELSE {TRUE})
    ELSE {build = "debug"}

BuildSeen(search_str, checks) ==
    IF build = "any" /\ Lines(search_str) = <<>>
    THEN (IF checks THEN "debug" ELSE "release")
    ELSE build

SearchEvent(hunk, sub, content, r) ==
    [op |-> "search", hunk |-> hunk, sub |-> sub, content |-> content,
     fault |-> r.fault, confidence |-> r.confidence, result |-> <<>>]

EditEvent(hunk, sub, content, fault, r) ==
    [op |-> "edit", hunk |-> hunk, sub |-> sub, content |-> content,
     fault |-> fault, confidence |-> r.confidence, result |-> r.result]

\* parse_unified_diff, original_content.lines(), the test for no hunks.
NuParse ==
    /\ pc = "parse"
    /\ \E d \in {ParseUnifiedDiff(diff_content)} :
          IF d.fault
          THEN /\ pc' = "fault"
               /\ UNCHANGED <<hunks, h, result, outcome>>
          ELSE /\ hunks' = d.hunks
               /\ result' = Lines(original_content)
               /\ IF d.hunks = <<>>
                  THEN /\ outcome' = Failure("No hunks found in diff")
                       /\ pc' = "done"
                       /\ UNCHANGED h
                  ELSE /\ pc' = "search"
                       /\ h' = 1
                       /\ UNCHANGED outcome
    /\ UNCHANGED <<original_content, diff_content, confidence_threshold, build,
                   search_result, sub_hunks, sub_search_result, s, sub_hunk_result,
                   history, editVars, sr, eval, cline>>

\* Every hunk searched in and edited on the lines of the file as it was.
OriginalBuffer(original_lines, buffer) == original_lines

\* The buffer a hunk is searched in and edited on.
HunkBuffer(original_lines, buffer) == buffer

\* A hunk edited whole whatever the confidence of its search.
SplitsNever(confidence, threshold) == FALSE

\* search_result.confidence < self.confidence_threshold
Splits(confidence, threshold) == RLt(confidence, threshold)

\* The head of the loop over the hunks: find_best_match on the buffer, and
\* split_hunk when the confidence is below the threshold.
NuSearch ==
    /\ pc = "search"
    /\ \E context_str \in {PrepareSearchString(hunks[h])},
          buffer \in {HunkBuffer(Lines(original_content), result)} :
         \E checks \in Checks(context_str) :
            \E r \in {FindBestMatch(context_str, buffer, 0, confidence_threshold,
                                    checks)} :
               /\ build' = BuildSeen(context_str, checks)
               /\ history' = Append(history, SearchEvent(h, 0, buffer, r))
               /\ IF r.fault
                  THEN /\ pc' = "fault"
                       /\ UNCHANGED <<search_result, sub_hunks, s, sub_hunk_result>>
                  ELSE /\ search_result' = r
                       /\ IF Splits(r.confidence, confidence_threshold)
                          THEN /\ sub_hunks' = SplitHunk(hunks[h])
                               /\ s' = 1
                               /\ sub_hunk_result' = buffer
                               /\ pc' = "sub_search"
                          ELSE /\ pc' = "edit"
                               /\ UNCHANGED <<sub_hunks, s, sub_hunk_result>>
    /\ UNCHANGED <<original_content, diff_content, confidence_threshold, hunks, h,
                   result, sub_search_result, outcome, editVars, sr, eval, cline>>

\* apply_edit on the whole hunk.
NuEdit ==
    /\ pc = "edit"
    /\ calls' = [calls EXCEPT ![1] =
                    NewCall(hunks[h], HunkBuffer(Lines(original_content), result),
                            search_result.index, search_result.confidence,
                            Some(confidence_threshold))]
    /\ pc' = "await"
    /\ UNCHANGED <<original_content, diff_content, confidence_threshold, build, hunks,
                   h, result, search_result, sub_hunks, sub_search_result, s,
                   sub_hunk_result, outcome, history, dirs, files, sr, eval, cline>>

\* An edit taken whatever its confidence.
AcceptsAny(confidence, threshold) == TRUE

\* edit_result.confidence >= self.confidence_threshold
Accepts(confidence, threshold) == RGe(confidence, threshold)

\* The end of one pass of the loop over the hunks, with the buffer to carry
\* on: the next hunk, or Success after the last.
NextHunk(buffer) ==
    /\ result' = buffer
    /\ IF h < Len(hunks)
       THEN /\ h' = h + 1
            /\ pc' = "search"
            /\ UNCHANGED outcome
       ELSE /\ outcome' = Success(Join(buffer))
            /\ pc' = "done"
            /\ UNCHANGED h

\* The edit of the whole hunk is back: it is taken, or the call fails.
NuEditReturn ==
    /\ pc = "await"
    /\ calls[1].pc \in {"returned", "fault"}
    /\ calls' = [calls EXCEPT ![1] = IdleCall]
    /\ history' = Append(history, EditEvent(h, 0, calls[1].content,
                                            calls[1].pc = "fault", calls[1].result))
    /\ IF calls[1].pc = "fault"
       THEN /\ pc' = "fault"
            /\ UNCHANGED <<h, result, outcome>>
       ELSE IF Accepts(calls[1].result.confidence, confidence_threshold)
       THEN NextHunk(calls[1].result.result)
       ELSE /\ outcome' = Failure("Failed to apply the edit")
            /\ pc' = "done"
            /\ UNCHANGED <<h, result>>
    /\ UNCHANGED <<original_content, diff_content, confidence_threshold, build, hunks,
                   search_result, sub_hunks, sub_search_result, s, sub_hunk_result,
                   dirs, files, sr, eval, cline>>

\* The head of the loop over the sub-hunks: find_best_match on the buffer
\* of the sub-hunks.
NuSubSearch ==
    /\ pc = "sub_search"
    /\ s <= Len(sub_hunks)
    /\ \E sub_context_str \in {PrepareSearchString(sub_hunks[s])} :
         \E checks \in Checks(sub_context_str) :
            \E r \in {FindBestMatch(sub_context_str, sub_hunk_result, 0,
                                    confidence_threshold, checks)} :
               /\ build' = BuildSeen(sub_context_str, checks)
               /\ history' = Append(history, SearchEvent(h, s, sub_hunk_result, r))
               /\ IF r.fault
                  THEN /\ pc' = "fault"
                       /\ UNCHANGED <<sub_search_result, outcome>>
                  ELSE /\ sub_search_result' = r
                       /\ IF RGe(r.confidence, confidence_threshold)
                          THEN /\ pc' = "sub_edit"
                               /\ UNCHANGED outcome
                          ELSE /\ outcome' =
                                    Failure("Failed to find a matching location in the file")
                               /\ pc' = "done"
    /\ UNCHANGED <<original_content, diff_content, confidence_threshold, hunks, h,
                   result, search_result, sub_hunks, s, sub_hunk_result, editVars, sr, eval, cline>>

\* apply_edit on a sub-hunk.
NuSubEdit ==
    /\ pc = "sub_edit"
    /\ calls' = [calls EXCEPT ![1] =
                    NewCall(sub_hunks[s], sub_hunk_result, sub_search_result.index,
                            sub_search_result.confidence, Some(confidence_threshold))]
    /\ pc' = "sub_await"
    /\ UNCHANGED <<original_content, diff_content, confidence_threshold, build, hunks,
                   h, result, search_result, sub_hunks, sub_search_result, s,
                   sub_hunk_result, outcome, history, dirs, files, sr, eval, cline>>

\* The edit of a sub-hunk is back: its result is the buffer of the next
\* sub-hunk, or the call fails.
NuSubEditReturn ==
    /\ pc = "sub_await"
    /\ calls[1].pc \in {"returned", "fault"}
    /\ calls' = [calls EXCEPT ![1] = IdleCall]
    /\ history' = Append(history, EditEvent(h, s, calls[1].content,
                                            calls[1].pc = "fault", calls[1].result))
    /\ IF calls[1].pc = "fault"
       THEN /\ pc' = "fault"
            /\ UNCHANGED <<s, sub_hunk_result, outcome>>
       ELSE IF Accepts(calls[1].result.confidence, confidence_threshold)
       THEN /\ sub_hunk_result' = calls[1].result.result
            /\ s' = s + 1
            /\ pc' = "sub_search"
            /\ UNCHANGED outcome
       ELSE /\ outcome' = Failure("Failed to find a matching location in the file")
            /\ pc' = "done"
            /\ UNCHANGED <<s, sub_hunk_result>>
    /\ UNCHANGED <<original_content, diff_content, confidence_threshold, build, hunks,
                   h, result, search_result, sub_hunks, sub_search_result, dirs, files, sr, eval, cline>>

\* The loop over the hunks going on without the buffer of the sub-hunks.
NuSubDoneKeepsResult ==
    /\ pc = "sub_search"
    /\ s > Len(sub_hunks)
    /\ NextHunk(result)
    /\ UNCHANGED <<original_content, diff_content, confidence_threshold, build, hunks,
                   search_result, sub_hunks, sub_search_result, s, sub_hunk_result,
                   history, editVars, sr, eval, cline>>

\* Every sub-hunk was applied: their buffer becomes the buffer of the call.
NuSubDone ==
    /\ pc = "sub_search"
    /\ s > Len(sub_hunks)
    /\ NextHunk(sub_hunk_result)
    /\ UNCHANGED <<original_content, diff_content, confidence_threshold, build, hunks,
                   search_result, sub_hunks, sub_search_result, s, sub_hunk_result,
                   history, editVars, sr, eval, cline>>

\* ---------------------------------- SearchReplaceDiffStrategy::apply_diff

\* The three marker lines of a search/replace block, each one symbol of the
\* text.
SEARCH_MARK == "<<<<<<< SEARCH"

SEPARATOR_MARK == "======="

REPLACE_MARK == ">>>>>>> REPLACE"

At(text, k, sym) == k >= 1 /\ k <= Len(text) /\ text[k] = sym

\* The places a match of
\*   <<<<<<< SEARCH\n([\s\S]*?)\n=======\n([\s\S]*?)\n>>>>>>> REPLACE
\* can pass through: the block starts at i, "\n=======\n" at j,
\* "\n>>>>>>> REPLACE" at k.
BlockEnds(diff, j) ==
    {k \in (j + 3)..Len(diff) : At(diff, k, NL) /\ At(diff, k + 1, REPLACE_MARK)}

BlockSeparators(diff, i) ==
    {j \in (i + 2)..Len(diff) :
        /\ At(diff, j, NL) /\ At(diff, j + 1, SEPARATOR_MARK) /\ At(diff, j + 2, NL)
        /\ BlockEnds(diff, j) # {}}

BlockStarts(diff) ==
    {i \in 1..Len(diff) :
        /\ At(diff, i, SEARCH_MARK) /\ At(diff, i + 1, NL)
        /\ BlockSeparators(diff, i) # {}}

\* The leftmost match, each group as short as it can be.
ShortestGroups(diff, i, j) == <<i, j, MinOf(BlockEnds(diff, j))>>

FirstBlock(diff, starts) ==
    IF starts = {} THEN None
    ELSE Some(ShortestGroups(diff, MinOf(starts),
                             MinOf(BlockSeparators(diff, MinOf(starts)))))

\* re.captures(diff_content): None, or Some of the places of the two groups.
Captures(diff) == FirstBlock(diff, BlockStarts(diff))

SearchContent(diff, m) == SubSeq(diff, m[1] + 2, m[2] - 1)

ReplaceContent(diff, m) == SubSeq(diff, m[2] + 3, m[3] - 1)

\* str::replace(char::is_whitespace, " ")
BlankWhitespace(t) == [k \in 1..Len(t) |-> IF IsWhitespace(t[k]) THEN " " ELSE t[k]]

\* str::trim
Trim(t) ==
    IF \A k \in 1..Len(t) : IsWhitespace(t[k]) THEN <<>>
    ELSE SubSeq(t, MinOf({k \in 1..Len(t) : ~IsWhitespace(t[k])}),
                MaxOf({k \in 1..Len(t) : ~IsWhitespace(t[k])}))

NormalizedEqualOrDistance(normalized_original, normalized_search) ==
    IF normalized_original = normalized_search THEN ROne
    ELSE NormalizedLevenshtein(normalized_original, normalized_search)

\* SearchReplaceDiffStrategy::get_similarity
GetSimilarity(original, search) ==
    IF search = <<>> THEN ROne
    ELSE NormalizedEqualOrDistance(Trim(BlankWhitespace(original)),
                                   Trim(BlankWhitespace(search)))

\* SearchReplaceDiffStrategy::new
NewFuzzyThreshold(opt) == UnwrapOr(opt, ROne)

SrSuccess(content) ==
    [kind |-> "Success", content |-> Some(content), error |-> "", details |-> None]

SrFailure(error, details) ==
    [kind |-> "Failure", content |-> None, error |-> error, details |-> details]

\* A panic inside the call.
SrFault == [kind |-> "fault", content |-> None, error |-> "", details |-> None]

NoBest == [fault |-> FALSE, index |-> None, score |-> RZero]

\* The hinted window original_lines[start_idx..end_idx] is taken when its
\* similarity reaches the threshold.
HintStep(similarity, start_idx, fuzzy_threshold) ==
    IF RGe(similarity, fuzzy_threshold)
    THEN [fault |-> FALSE, index |-> Some(start_idx), score |-> similarity]
    ELSE NoBest

HintMatch(original_lines, search_content, start_line, end_line, fuzzy_threshold) ==
    IF start_line # None /\ end_line # None
    THEN HintStep(GetSimilarity(
                      Join(Slice(original_lines, SaturatingSub(start_line[1], 1),
                                 MinOf({end_line[1], Len(original_lines)}))),
                      search_content),
                  SaturatingSub(start_line[1], 1), fuzzy_threshold)
    ELSE NoBest

ScanStep(similarity, i, best) ==
    IF RGt(similarity, best.score)
    THEN [fault |-> FALSE, index |-> Some(i), score |-> similarity]
    ELSE best

\* for i in search_range_start..=search_range_end.saturating_sub(n): the
\* window original_lines[i..i + n] is out of range when i + n is past the
\* last line.
RECURSIVE ScanLoop(_, _, _, _, _, _)
ScanLoop(i, last, n, original_lines, search_content, best) ==
    IF i > last THEN best
    ELSE IF i + n > Len(original_lines) THEN [best EXCEPT !.fault = TRUE]
    ELSE ScanLoop(i + 1, last, n, original_lines, search_content,
                  ScanStep(GetSimilarity(Join(Slice(original_lines, i, i + n)),
                                         search_content),
                           i, best))

\* The scan runs only when the hinted window was not taken.
ScanMatch(best, original_lines, search_content, n, start_line, end_line) ==
    IF best.index # None THEN best
    ELSE ScanLoop(IF start_line = None THEN 0 ELSE SaturatingSub(start_line[1], 1),
                  SaturatingSub(UnwrapOr(end_line, Len(original_lines)), n),
                  n, original_lines, search_content, best)

\* The test of the best match and the splice of the replace lines.
SrFinish(best, original_lines, search_content, replace_content, n, fuzzy_threshold) ==
    IF best.fault THEN SrFault
    ELSE IF best.index = None \/ RLt(best.score, fuzzy_threshold)
    THEN SrFailure("No sufficiently similar match found",
                   Some([similarity |-> best.score, threshold |-> fuzzy_threshold,
                         search_content |-> search_content]))
    ELSE IF best.index[1] + n > Len(original_lines) THEN SrFault
    ELSE SrSuccess(Join(Slice(original_lines, 0, best.index[1])
                        \o Lines(replace_content)
                        \o Slice(original_lines, best.index[1] + n,
                                 Len(original_lines))))

RangeInvalid(start_idx, end_idx, len) ==
    start_idx >= len \/ end_idx > len \/ start_idx > end_idx

\* The two hints compared only when both are supplied.
HintsDifferWhenBoth(start_line, end_line) ==
    start_line # None /\ end_line # None /\ start_line # end_line

\* start_line != end_line, on Option<usize>
HintsDiffer(start_line, end_line) == start_line # end_line

\* apply_diff once the block is captured; n is the number of search lines.
SrMatch(original_lines, search_content, replace_content, n, start_line, end_line, fuzzy_threshold) ==
    IF n = 0 /\ start_line = None
    THEN SrFailure("Empty search content requires start_line to be specified", None)
    ELSE IF n = 0 /\ HintsDiffer(start_line, end_line)
    THEN SrFailure("Empty search content requires start_line and end_line to be the same",
                   None)
    ELSE IF /\ start_line # None /\ end_line # None
            /\ RangeInvalid(SaturatingSub(start_line[1], 1),
                            MinOf({end_line[1], Len(original_lines)}),
                            Len(original_lines))
    THEN SrFailure("Line range is invalid", None)
    ELSE SrFinish(ScanMatch(HintMatch(original_lines, search_content, start_line,
                                      end_line, fuzzy_threshold),
                            original_lines, search_content, n, start_line, end_line),
                  original_lines, search_content, replace_content, n, fuzzy_threshold)

SrCaptured(captures, original, diff, start_line, end_line, fuzzy_threshold) ==
    IF captures = None
    THEN SrFailure("Invalid diff format - missing required SEARCH/REPLACE sections", None)
    ELSE SrMatch(Lines(original), SearchContent(diff, captures[1]),
                 ReplaceContent(diff, captures[1]),
                 Len(Lines(SearchContent(diff, captures[1]))),
                 start_line, end_line, fuzzy_threshold)

\* SearchReplaceDiffStrategy::apply_diff as a function of its arguments.
SearchReplaceApplyDiff(original, diff, start_line, end_line, fuzzy_threshold) ==
    SrCaptured(Captures(diff), original, diff, start_line,
               end_line, fuzzy_threshold)

SrIdle ==
    [pc |-> "idle", original_content |-> <<>>, diff_content |-> <<>>,
     start_line |-> None, end_line |-> None, fuzzy_threshold |-> ROne,
     outcome |-> SrFailure("", None)]

\* A caller enters apply_diff of a strategy built with fuzzy_threshold.
SrCall(original, diff, start_line, end_line, threshold_opt) ==
    /\ sr.pc = "idle"
    /\ sr' = [SrIdle EXCEPT !.pc = "called", !.original_content = original,
                            !.diff_content = diff, !.start_line = start_line,
                            !.end_line = end_line,
                            !.fuzzy_threshold = NewFuzzyThreshold(threshold_opt)]
    /\ UNCHANGED <<nuVars, editVars, eval, cline>>

\* The call runs to its return: it has no await.
SrApplyDiff ==
    /\ sr.pc = "called"
    /\ \E r \in {SearchReplaceApplyDiff(sr.original_content, sr.diff_content,
                                         sr.start_line, sr.end_line,
                                         sr.fuzzy_threshold)} :
          sr' = [sr EXCEPT !.pc = IF r.kind = "fault" THEN "fault" ELSE "done",
                           !.outcome = r]
    /\ UNCHANGED <<nuVars, editVars, eval, cline>>

\* ------------------------------------------------------ extract_mentions

\* The characters of the inputs that take two bytes in UTF-8.
WideChars == {"U+00E9"}

\* The second byte of such a character: no character starts at it.
ContinuationByte == "continuation byte"

\* The bytes of a str, one element for each byte.
RECURSIVE Utf8(_)
Utf8(chars) ==
    IF chars = <<>> THEN <<>>
    ELSE (IF Head(chars) \in WideChars THEN <<Head(chars), ContinuationByte>>
          ELSE <<Head(chars)>>)
         \o Utf8(Tail(chars))

\* text[i..].starts_with("http"), i the index of a character used as an
\* offset in bytes: "panic" when no character starts at byte i.
HttpAt(bytes, i) ==
    IF i < Len(bytes) /\ bytes[i + 1] = ContinuationByte THEN "panic"
    ELSE IF StartsWith(Slice(bytes, i, Len(bytes)), <<"h", "t", "t", "p">>) THEN "http"
    ELSE "other"

NoMentions ==
    [fault |-> FALSE, mentions |-> <<>>, current_mention |-> <<>>, in_mention |-> FALSE]

StartMention(c, st) ==
    [st EXCEPT !.in_mention = TRUE, !.current_mention = Append(@, c)]

EndMention(st) ==
    IF st.in_mention
    THEN [st EXCEPT !.mentions = IF st.current_mention # <<>>
                                 THEN Append(@, st.current_mention) ELSE @,
                    !.current_mention = <<>>,
                    !.in_mention = FALSE]
    ELSE st

OtherChar(c, st) ==
    IF st.in_mention THEN [st EXCEPT !.current_mention = Append(@, c)] ELSE st

\* One character of the loop: the arms of the match in their order.
MentionStep(chars, i, http, st) ==
    IF chars[i + 1] = "#"
    THEN IF i = 0 \/ IsWhitespace(chars[i]) THEN StartMention("#", st) ELSE st
    ELSE IF chars[i + 1] = "h" /\ http = "panic" THEN [st EXCEPT !.fault = TRUE]
    ELSE IF chars[i + 1] = "h" /\ http = "http" THEN StartMention("h", st)
    ELSE IF chars[i + 1] \in {" ", "\n", "\t"} THEN EndMention(st)
    ELSE OtherChar(chars[i + 1], st)

RECURSIVE MentionLoop(_, _, _, _)
MentionLoop(chars, bytes, i, st) ==
    IF i >= Len(chars) \/ st.fault THEN st
    ELSE MentionLoop(chars, bytes, i + 1,
                     MentionStep(chars, i, HttpAt(bytes, i), st))

MentionFinish(st) ==
    [fault |-> st.fault,
     mentions |-> IF st.fault THEN <<>>
                  ELSE IF st.in_mention /\ st.current_mention # <<>>
                  THEN Append(st.mentions, st.current_mention)
                  ELSE st.mentions]

\* extract_mentions(text): [fault, mentions].
ExtractMentions(text) == MentionFinish(MentionLoop(text, Utf8(text), 0, NoMentions))

\* ------------------------------------------- functions called on their own

EvalIdle == [pc |-> "idle", fn |-> "", args |-> <<>>, value |-> <<>>]

\* A caller enters the function fn with the arguments args.
EvalCall(fn, args) ==
    /\ eval.pc = "idle"
    /\ eval' = [pc |-> "called", fn |-> fn, args |-> args, value |-> <<>>]
    /\ UNCHANGED <<nuVars, editVars, sr, cline>>

\* The function returns value.
EvalReturn(value) ==
    /\ eval' = [eval EXCEPT !.pc = "returned", !.value = value]
    /\ UNCHANGED <<nuVars, editVars, sr, cline>>

\* SearchReplaceDiffStrategy::get_similarity(original, search)
GetSimilarityRun ==
    /\ eval.pc = "called" /\ eval.fn = "get_similarity"
    /\ \E v \in {GetSimilarity(eval.args[1], eval.args[2])} : EvalReturn(v)

\* NewUnifiedDiffStrategy::parse_unified_diff(diff)
ParseUnifiedDiffRun ==
    /\ eval.pc = "called" /\ eval.fn = "parse_unified_diff"
    /\ \E v \in {ParseUnifiedDiff(eval.args[1])} : EvalReturn(v)

\* NewUnifiedDiffStrategy::split_hunk(hunk)
SplitHunkRun ==
    /\ eval.pc = "called" /\ eval.fn = "split_hunk"
    /\ \E v \in {SplitHunk(eval.args[1])} : EvalReturn(v)

\* find_exact_match(search_str, content, start_index, confidence_threshold),
\* in a build that checks overflow or in one that does not.
FindExactMatchRun ==
    /\ eval.pc = "called" /\ eval.fn = "find_exact_match"
    /\ \E v \in {FindExactMatch(eval.args[1], eval.args[2], eval.args[3],
                                eval.args[4], eval.args[5])} : EvalReturn(v)

\* find_similarity_match(search_str, content, start_index, confidence_threshold),
\* in a build that checks overflow or in one that does not.
FindSimilarityMatchRun ==
    /\ eval.pc = "called" /\ eval.fn = "find_similarity_match"
    /\ \E v \in {FindSimilarityMatch(eval.args[1], eval.args[2], eval.args[3],
                                     eval.args[4], eval.args[5])} : EvalReturn(v)

\* extract_mentions(text)
ExtractMentionsRun ==
    /\ eval.pc = "called" /\ eval.fn = "extract_mentions"
    /\ \E v \in {ExtractMentions(eval.args[1])} : EvalReturn(v)

\* apply_context_matching(hunk, content, match_position)
ApplyContextMatchingRun ==
    /\ eval.pc = "called" /\ eval.fn = "apply_context_matching"
    /\ \E v \in {ApplyContextMatching(eval.args[1], eval.args[2], eval.args[3])} :
          EvalReturn(v)

\* -------------------------------------------------------------------- Cline

\* ClineMessage::Say { ts, text, say, partial }
SayMessage(ts, text, say, partial) ==
    [type |-> "say", ts |-> ts, text |-> text, kind |-> say, partial |-> partial]

\* ClineMessage::Ask { ts, text, ask, partial }
AskMessage(ts, text, ask, partial) ==
    [type |-> "ask", ts |-> ts, text |-> text, kind |-> ask, partial |-> partial]

\* The last message is of the given variant and has partial = Some(true).
IsUpdatingPreviousPartial(messages, type) ==
    /\ messages # <<>>
    /\ messages[Len(messages)].type = type
    /\ messages[Len(messages)].partial = Some(TRUE)

\* pop() and add_cline_message of a message that keeps the ts of the one
\* popped.
UpdateLast(messages, text, partial) ==
    Append(SubSeq(messages, 1, Len(messages) - 1),
           [messages[Len(messages)] EXCEPT !.text = text, !.partial = partial])

\* cline_messages after say(say_type, text, images, partial) at current_time:
\* every message it makes has say = Text, whatever say_type.
Say(messages, current_time, text, partial) ==
    IF partial # None /\ IsUpdatingPreviousPartial(messages, "say")
    THEN UpdateLast(messages, text, partial)
    ELSE Append(messages, SayMessage(current_time, text, "text", partial))

\* cline_messages after ask(ask_type, text, partial) at current_time.
Ask(messages, current_time, text, partial) ==
    IF partial # None /\ IsUpdatingPreviousPartial(messages, "ask")
    THEN UpdateLast(messages, text, partial)
    ELSE Append(messages, AskMessage(current_time, text, "followup", partial))

\* What is remembered of the calls made: the run of say calls with partial
\* = Some(true) that is going on, and the run that the last call closed with
\* partial = Some(false).
NoRun == [open |-> FALSE, before |-> <<>>, ts |-> 0]

NoClosed == [done |-> FALSE, before |-> <<>>, ts |-> 0, text |-> ""]

\* Cline::new
ClineNew ==
    [pc |-> "idle",
     cline_messages |-> <<>>,
     did_complete_reading_stream |-> FALSE,
     did_reject_tool |-> FALSE,
     did_already_use_tool |-> FALSE,
     caller |-> "",
     requests |-> 0,
     now |-> 0,
     run |-> NoRun,
     closed |-> NoClosed]

\* No call is running on the instance: a method that takes &mut self can be
\* called.
Settled == cline.pc \in {"idle", "returned", "failed"}

MaxClock == 1

MaxMessages == 3

MaxRequests == 2

ClineTexts == {"a", "b"}

PartialOpts == {None, Some(TRUE), Some(FALSE)}

\* SystemTime::now() moves on between two calls.
ClineTick ==
    /\ cline.now < MaxClock
    /\ cline' = [cline EXCEPT !.now = @ + 1]
    /\ UNCHANGED <<nuVars, editVars, sr, eval>>

\* Cline::say(say_type, text, images, partial)
ClineSay(text, partial) ==
    /\ Settled
    /\ Len(cline.cline_messages) < MaxMessages
    /\ cline' = [cline EXCEPT
          !.cline_messages = Say(@, cline.now, text, partial),
          !.run = IF partial # Some(TRUE) THEN NoRun
                  ELSE IF cline.run.open THEN @
                  ELSE [open |-> TRUE, before |-> cline.cline_messages,
                        ts |-> cline.now],
          !.closed = IF partial = Some(FALSE) /\ cline.run.open
                     THEN [done |-> TRUE, before |-> cline.run.before,
                           ts |-> cline.run.ts, text |-> text]
                     ELSE NoClosed]
    /\ UNCHANGED <<nuVars, editVars, sr, eval>>

\* Cline::ask(ask_type, text, partial)
ClineAsk(text, partial) ==
    /\ Settled
    /\ Len(cline.cline_messages) < MaxMessages
    /\ cline' = [cline EXCEPT !.cline_messages = Ask(@, cline.now, text, partial),
                              !.run = NoRun, !.closed = NoClosed]
    /\ UNCHANGED <<nuVars, editVars, sr, eval>>

\* The conversations a caller restores: a task whose answer was streamed to
\* its end, and one whose stream was cut.
SavedConversations ==
    {<<SayMessage(0, "a", "task", None), SayMessage(0, "b", "text", p)>> :
        p \in {Some(FALSE), Some(TRUE)}}

\* Cline::overwrite_cline_messages(messages)
OverwriteClineMessages(messages) ==
    /\ Settled
    /\ cline' = [cline EXCEPT !.cline_messages = messages,
                              !.run = NoRun, !.closed = NoClosed]
    /\ UNCHANGED <<nuVars, editVars, sr, eval>>

\* initiate_task_loop enters start_task: the messages are cleared, the task
\* is said, and the first request to the API is to be made.
StartTask(task) ==
    /\ Settled
    /\ cline' = [cline EXCEPT
          !.pc = "request",
          !.caller = "start_task",
          !.requests = 0,
          !.cline_messages = <<SayMessage(cline.now, task, "task", None)>>,
          !.run = NoRun, !.closed = NoClosed]
    /\ UNCHANGED <<nuVars, editVars, sr, eval>>

\* What attempt_api_request gives back: an error, a message with a tool use
\* in it, or a message without.
ApiOutcomes == {"error", "<tool>", "no tool"}

\* One recursively_make_cline_requests: the request is announced; an error
\* ends initiate_task_loop with Err; a message is said, and without a tool
\* use in it the next request follows.  The chunks of the stream are said on
\* a clone of the instance.
ApiRequest ==
    /\ cline.pc = "request"
    /\ \E out \in ApiOutcomes :
          /\ out = "no tool" => cline.requests < MaxRequests
          /\ cline' = [cline EXCEPT
                !.requests = @ + 1,
                !.cline_messages =
                    IF out = "error"
                    THEN Append(@, SayMessage(cline.now, "API request started...",
                                              "api_req_started", None))
                    ELSE @ \o <<SayMessage(cline.now, "API request started...",
                                           "api_req_started", None),
                                SayMessage(cline.now, out, "text", None)>>,
                !.pc = IF out = "error" THEN "failed"
                       ELSE IF out = "no tool" THEN "request"
                       ELSE IF cline.caller = "start_task" THEN "loop"
                       ELSE "continue",
                !.caller = IF out = "<tool>" THEN "" ELSE @]
    /\ UNCHANGED <<nuVars, editVars, sr, eval>>

\* One pass through the body of the loop of initiate_task_loop, up to its
\* continue, its request or its break.
TaskLoopBody ==
    /\ cline.pc = "loop"
    /\ cline' =
          IF ~cline.did_complete_reading_stream
          THEN [cline EXCEPT !.pc = "continue"]
          ELSE IF cline.did_reject_tool
          THEN [cline EXCEPT !.did_reject_tool = FALSE, !.pc = "continue"]
          ELSE IF cline.did_already_use_tool
          THEN [cline EXCEPT !.did_already_use_tool = FALSE,
                             !.pc = "request", !.caller = "loop", !.requests = 0]
          ELSE [cline EXCEPT !.pc = "returned"]
    /\ UNCHANGED <<nuVars, editVars, sr, eval>>

\* continue: back to the head of the loop.
TaskLoopContinue ==
    /\ cline.pc = "continue"
    /\ cline' = [cline EXCEPT !.pc = "loop"]
    /\ UNCHANGED <<nuVars, editVars, sr, eval>>

\* -------------------------------------------------------------- the inputs

MaxOrigLines == 3

MaxHunkLines == 2

SeqsUpTo(V, n) == UNION {[1..k -> V] : k \in 0..n}

HunkHeader == <<"@", "@">>

\* The lines of the files and of the hunk bodies that are enumerated.
OrigLineVocab == {<<>>, <<"a">>, <<"b">>}

BodyLineVocab == {<<" ", "a">>, <<"-", "a">>, <<"-", "b">>, <<"+", "b">>, <<"+", "c">>}

a1 == <<"a">>

b1 == <<"b">>

c1 == <<"c">>

\* Files and diffs beyond the enumerated ones: a hunk with four context
\* lines between two removals and files it applies to only in parts, a
\* hunk with more leading context than its file, an empty line in a hunk
\* body, file headers, an added line with inner whitespace, two hunks of
\* which the second needs the result of the first.
ScenarioOriginals ==
    { Join(<<a1, c1, c1, c1, c1, c1, c1, c1, c1, c1, c1, c1, b1>>),
      Join(<<a1, c1, c1, c1, c1>>),
      Join(<<c1, c1, c1, a1>>),
      Join(<<a1, b1, c1>>) \o <<NL>> }

ScenarioDiffs ==
    { Join(<<HunkHeader, <<"-", "a">>, <<" ", "c">>, <<" ", "c">>, <<" ", "c">>,
             <<" ", "c">>, <<"-", "b">>>>),
      Join(<<HunkHeader, <<" ", "b">>, <<" ", "c">>, <<" ", "c">>, <<" ", "c">>,
             <<"-", "a">>>>),
      Join(<<HunkHeader, <<"-", "a">>, <<>>, <<"+", "b">>>>),
      Join(<<<<"-", "-", "-", " ", "a">>, <<"+", "+", "+", " ", "a">>, HunkHeader,
             <<"-", "a">>, <<"+", "b">>>>),
      Join(<<HunkHeader, <<"-", "a">>, <<"+", "a", " ", "b">>>>),
      Join(<<HunkHeader, <<"-", "a">>, <<"+", "b">>, HunkHeader, <<"-", "b">>,
             <<"+", "c">>>>),
      Join(<<HunkHeader, <<"-", "a">>, <<"+", "b">>, HunkHeader, <<"-", "c">>,
             <<"+", "a">>>>),
      Join(<<HunkHeader, <<" ", "a">>, HunkHeader, <<"+", "b">>, <<"-", "a">>>>),
      Join(<<<<" ", "a">>, <<"-", "a">>>>) }

Originals ==
    {Join(ls) : ls \in SeqsUpTo(OrigLineVocab, MaxOrigLines)} \cup ScenarioOriginals

Diffs ==
    {Join(<<HunkHeader>> \o body) : body \in SeqsUpTo(BodyLineVocab, MaxHunkLines)}
        \cup ScenarioDiffs

\* The confidence_threshold handed to NewUnifiedDiffStrategy::new.
ThresholdOpts == {None, Some(Rat(1, 2))}

\* What callers hand to apply_edit: a hunk of a parsed diff, the lines of a
\* file, the position and the confidence of a search, a threshold.
\*   - the match is confident and the context edit is exact;
\*   - the context edit scores below the threshold (an added line with a
\*     space inside);
\*   - the search confidence is below the threshold;
\*   - the search found no position;
\*   - the search confidence equals the threshold;
\*   - the context edit scores below the threshold and the file has a line
\*     that the hunk does not name.
EditHunk(diff) == ParseUnifiedDiff(diff).hunks[1]

ReplaceHunk == EditHunk(Join(<<HunkHeader, <<"-", "a">>, <<"+", "b">>>>))

SpacedHunk == EditHunk(Join(<<HunkHeader, <<"-", "a">>, <<"+", "a", " ", "b">>>>))

EditInputs ==
    { [hunk |-> ReplaceHunk, content |-> <<a1, c1>>, match_position |-> 0,
       confidence |-> ROne, threshold |-> None],
      [hunk |-> SpacedHunk, content |-> <<a1>>, match_position |-> 0,
       confidence |-> ROne, threshold |-> None],
      [hunk |-> ReplaceHunk, content |-> <<a1>>, match_position |-> 0,
       confidence |-> Rat(1, 2), threshold |-> None],
      [hunk |-> ReplaceHunk, content |-> <<b1>>, match_position |-> -1,
       confidence |-> ROne, threshold |-> Some(ROne)],
      [hunk |-> ReplaceHunk, content |-> <<c1, a1>>, match_position |-> 1,
       confidence |-> Rat(1, 2), threshold |-> Some(Rat(1, 2))],
      [hunk |-> SpacedHunk, content |-> <<c1, a1>>, match_position |-> 1,
       confidence |-> ROne, threshold |-> None] }

\* A caller other than apply_diff enters apply_edit.
EnvCall(c) ==
    /\ calls[c].pc \in {"idle", "returned"}
    /\ \E in \in EditInputs :
          calls' = [calls EXCEPT ![c] =
                       NewCall(in.hunk, in.content, in.match_position, in.confidence,
                               in.threshold)]
    /\ UNCHANGED <<nuVars, dirs, files, sr, eval, cline>>

\* What callers hand to SearchReplaceDiffStrategy::apply_diff.
MaxSrLines == 2

SrLineVocab == {<<"a">>, <<"b">>, <<"a", " ", "b">>, <<"a", " ", " ", "b">>}

SrSearchVocab == {<<"b">>, <<"a", " ", "b">>}

SrOriginals ==
    {Join(ls) : ls \in SeqsUpTo(SrLineVocab, MaxSrLines)}
        \cup {Join(<<a1, b1, c1>>) \o <<NL>>}

SrSearches ==
    {Join(ls) : ls \in SeqsUpTo(SrSearchVocab, MaxSrLines)}
        \cup {<<"a", "\t", "b">>, Join(<<a1, b1, c1, a1>>)}

SrReplaces == {<<"B">>, <<>>}

SrBlock(search, replace) ==
    Join(<< <<SEARCH_MARK>>, search, <<SEPARATOR_MARK>>, replace, <<REPLACE_MARK>> >>)

\* Well-formed blocks, a block whose empty search section has no line of
\* its own, a block inside other text, and a text with no block.
SrDiffs ==
    {SrBlock(search, replace) : search \in SrSearches, replace \in SrReplaces}
        \cup { Join(<< <<SEARCH_MARK>>, <<SEPARATOR_MARK>>, <<"B">>, <<REPLACE_MARK>> >>),
               Join(<<a1, SrBlock(b1, <<"B">>), c1>>),
               Join(<<a1, b1>>) }

SrHints == {None, Some(1), Some(3)}

SrThresholdOpts == {None, Some(Rat(1, 2))}

\* What callers hand to the functions called on their own.

\* get_similarity: windows of a file and search texts, with runs of
\* whitespace of several lengths, and the empty text.
SimTexts ==
    { <<>>, <<"a">>, <<"b">>, <<"a", " ", "b">>, <<"a", " ", " ", "b">>,
      <<"a", "\t", "b">>, <<" ", "a">>, <<"a", "\n", "b">> }

\* parse_unified_diff: a hunk with a removed line between two runs of
\* context lines, alone or followed by a second hunk; hunk lines with and
\* without indentation.
MaxContextRun == 7

ContextRun(k) == [i \in 1..k |-> <<" ", "c">>]

RunBody(k, m) == ContextRun(k) \o << <<"-", "a">> >> \o ContextRun(m)

RunDiffs ==
    {Join(<<HunkHeader>> \o RunBody(k, m)) :
        k \in 0..MaxContextRun, m \in 0..MaxContextRun}
    \cup {Join(<<HunkHeader>> \o RunBody(k, m) \o <<HunkHeader, <<"-", "b">>>>) :
             k \in 0..MaxContextRun, m \in 0..MaxContextRun}

IndentLineVocab ==
    { <<"+", "a">>, <<"+", " ", "a">>, <<"+", " ", " ", "a">>, <<"+", "a", " ", "b">>,
      <<"-", "\t", "a">>, <<"-", " ", "a", " ", "b">>, <<" ", "a">>, <<" ", " ", "a">> }

IndentDiffs ==
    {Join(<<HunkHeader, <<"-", "b">>>> \o body) :
        body \in SeqsUpTo(IndentLineVocab, 1)}

EvalDiffs == RunDiffs \cup IndentDiffs

\* split_hunk: hunks of parsed diffs with two changes and runs of context
\* lines before, between and after them.
MaxSplitRun == 5

ContextChanges(k) == [i \in 1..k |-> ParseChange(<<" ", "c">>)]

\* Hunks of up to four changes of every kind, in every order.
MaxSplitChanges == 4

SplitChangeVocab ==
    {ParseChange(l) : l \in {<<" ", "c">>, <<"-", "a">>, <<"+", "b">>}}

SplitInputs ==
    {ContextChanges(k) \o <<ParseChange(<<"-", "a">>)>> \o ContextChanges(g)
        \o <<ParseChange(<<"+", "b">>)>> \o ContextChanges(m) :
        k \in 0..MaxSplitRun, g \in 0..MaxSplitRun, m \in 0..MaxSplitRun}
        \cup SeqsUpTo(SplitChangeVocab, MaxSplitChanges)

\* find_exact_match: search texts of one and two lines over files whose
\* lines have one or two characters, and a search text of three lines over
\* a file of five, where the windows start three lines apart.
MaxExactLines == 4

ExactLineVocab == {<<"a">>, <<"b">>, <<"a", "b">>}

ExactContents ==
    SeqsUpTo(ExactLineVocab, MaxExactLines) \cup {<<a1, b1, a1, a1, a1>>}

ExactSearches ==
    {Join(ls) : ls \in SeqsUpTo({<<"a">>, <<"b">>}, 2) \ {<<>>}}
        \cup {Join(<<b1, a1, a1>>)}

\* apply_context_matching: hunks of up to three changes, a removed and an
\* added blank line among them, at every position of files of up to two
\* lines, so that a hunk can also reach past the end of its file.
MaxEditChanges == 3

MaxEditLines == 2

EditChangeVocab ==
    {ParseChange(l) : l \in {<<" ", "a">>, <<"-", "a">>, <<"+", "b">>, <<"-">>, <<"+">>}}

EditChanges == SeqsUpTo(EditChangeVocab, MaxEditChanges) \ {<<>>}

EditContents == SeqsUpTo({a1, <<>>}, MaxEditLines)

\* find_similarity_match: search texts of one and two lines, one of them a
\* line that starts with "-", over files of up to two lines and over a file
\* of one line more than LARGE_FILE_THRESHOLD that ends with the two search
\* lines; the search starts at most two lines before the end of the file.
MaxSimLines == 2

DashLine == <<"-">>

LongLine == [k \in 1..27 |-> "a"]

SimLineVocab == {DashLine, LongLine}

LargeFile ==
    [k \in 1..(LARGE_FILE_THRESHOLD + 1) |->
        IF k = LARGE_FILE_THRESHOLD + 1 THEN LongLine
        ELSE IF k = LARGE_FILE_THRESHOLD THEN DashLine
        ELSE <<"x">>]

SimContents == SeqsUpTo(SimLineVocab, MaxSimLines) \cup {LargeFile}

SimSearches == {DashLine, LongLine, Join(<<DashLine, LongLine>>)}

\* extract_mentions: texts made of up to four pieces: "#", a letter, a
\* space, "http", "h" and a character of two bytes.
MaxMentionPieces == 4

MentionPieces == {<<"#">>, <<"a">>, <<" ">>, <<"h", "t", "t", "p">>, <<"h">>, <<"U+00E9">>}

RECURSIVE Concat(_)
Concat(ps) == IF ps = <<>> THEN <<>> ELSE Head(ps) \o Concat(Tail(ps))

MentionTexts == {Concat(ps) : ps \in SeqsUpTo(MentionPieces, MaxMentionPieces)}

\* --------------------------------------------------------- specification

NoCalls == [c \in CallIds |-> IdleCall]

InitEdit ==
    /\ calls = NoCalls
    /\ dirs = [d \in DirNames |-> 0]
    /\ files = [d \in DirNames |-> None]

Init ==
    /\ pc = "parse"
    /\ original_content \in Originals
    /\ diff_content \in Diffs
    /\ confidence_threshold \in {NewThreshold(t) : t \in ThresholdOpts}
    /\ build = "any"
    /\ hunks = <<>>
    /\ h = 0
    /\ result = <<>>
    /\ search_result = NoMatch("none")
    /\ sub_hunks = <<>>
    /\ sub_search_result = NoMatch("none")
    /\ s = 0
    /\ sub_hunk_result = <<>>
    /\ outcome = NoOutcome
    /\ history = <<>>
    /\ InitEdit
    /\ sr = SrIdle
    /\ eval = EvalIdle /\ cline = ClineNew

Next ==
    \/ NuParse
    \/ NuSearch
    \/ NuEdit
    \/ NuEditReturn
    \/ NuSubSearch
    \/ NuSubEdit
    \/ NuSubEditReturn
    \/ NuSubDone
    \/ EditStep(1)

Spec == Init /\ [][Next]_vars

\* No apply_diff of NewUnifiedDiffStrategy is running.
NuIdle ==
    /\ pc = "idle"
    /\ original_content = <<>>
    /\ diff_content = <<>>
    /\ confidence_threshold = ROne
    /\ build = "any"
    /\ hunks = <<>>
    /\ h = 0
    /\ result = <<>>
    /\ search_result = NoMatch("none")
    /\ sub_hunks = <<>>
    /\ sub_search_result = NoMatch("none")
    /\ s = 0
    /\ sub_hunk_result = <<>>
    /\ outcome = NoOutcome
    /\ history = <<>>

\* apply_edit under concurrent callers.
InitEditCalls == NuIdle /\ InitEdit /\ sr = SrIdle /\ eval = EvalIdle /\ cline = ClineNew

NextEdit == \E c \in CallIds : EnvCall(c) \/ EditStep(c)

SpecEdit == InitEditCalls /\ [][NextEdit]_vars

\* SearchReplaceDiffStrategy::apply_diff over its inputs.
InitSR == NuIdle /\ InitEdit /\ sr = SrIdle /\ eval = EvalIdle /\ cline = ClineNew

NextSR ==
    \/ \E original \in SrOriginals, diff \in SrDiffs, start_line \in SrHints,
          end_line \in SrHints, threshold_opt \in SrThresholdOpts :
          SrCall(original, diff, start_line, end_line, threshold_opt)
    \/ SrApplyDiff

SpecSR == InitSR /\ [][NextSR]_vars

\* The functions of the engine, each called on its own.
InitEval == NuIdle /\ InitEdit /\ sr = SrIdle /\ eval = EvalIdle /\ cline = ClineNew

NextEval ==
    \/ \E original \in SimTexts, search \in SimTexts :
          EvalCall("get_similarity", <<original, search>>)
    \/ \E diff \in EvalDiffs : EvalCall("parse_unified_diff", <<diff>>)
    \/ \E hunk \in SplitInputs : EvalCall("split_hunk", <<hunk>>)
    \/ \E search_str \in ExactSearches, content \in ExactContents,
          threshold_opt \in ThresholdOpts, checks \in BOOLEAN :
          \E start_index \in 0..MinOf({1, Len(content)}) :
             EvalCall("find_exact_match",
                      <<search_str, content, start_index, NewThreshold(threshold_opt),
                        checks>>)
    \/ \E changes \in EditChanges, content \in EditContents :
          \E match_position \in 0..Len(content) :
             EvalCall("apply_context_matching", <<changes, content, match_position>>)
    \/ \E search_str \in SimSearches, content \in SimContents,
          threshold_opt \in ThresholdOpts, checks \in BOOLEAN :
          \E start_index \in {MaxOf({0, Len(content) - MaxSimLines})} :
             EvalCall("find_similarity_match",
                      <<search_str, content, start_index, NewThreshold(threshold_opt),
                        checks>>)
    \/ \E text \in MentionTexts : EvalCall("extract_mentions", <<text>>)
    \/ GetSimilarityRun
    \/ ParseUnifiedDiffRun
    \/ SplitHunkRun
    \/ FindExactMatchRun
    \/ ApplyContextMatchingRun
    \/ FindSimilarityMatchRun
    \/ ExtractMentionsRun

SpecEval == InitEval /\ [][NextEval]_vars

\* The calls on one Cline instance.
InitCline == NuIdle /\ InitEdit /\ sr = SrIdle /\ eval = EvalIdle /\ cline = ClineNew

NextCline ==
    \/ ClineTick
    \/ \E text \in ClineTexts, partial \in PartialOpts : ClineSay(text, partial)
    \/ \E text \in ClineTexts, partial \in PartialOpts : ClineAsk(text, partial)
    \/ \E messages \in SavedConversations : OverwriteClineMessages(messages)
    \/ \E task \in ClineTexts : StartTask(task)
    \/ ApiRequest
    \/ TaskLoopBody
    \/ TaskLoopContinue

SpecCline == InitCline /\ [][NextCline]_vars

\* The loop of initiate_task_loop has no await: once entered it runs on.
SpecClineFair ==
    SpecCline /\ WF_vars(TaskLoopBody) /\ WF_vars(TaskLoopContinue)

\* ------------------------------------------------------------ properties

\* What the claims say of a diff and a file, stated on the texts.

\* Every line from the first "@@" on is a "@@" line or starts with " ", "+"
\* or "-".
ValidBody(ls, first) ==
    \A k \in first..Len(ls) :
        \/ StartsWith(ls[k], HunkHeader)
        \/ ls[k] # <<>> /\ ls[k][1] \in {" ", "+", "-"}

ValidDiffLines(ls, heads) == heads # {} /\ ValidBody(ls, MinOf(heads))

ValidDiffText(diff) ==
    ValidDiffLines(Lines(diff),
                   {k \in 1..Len(Lines(diff)) : StartsWith(Lines(diff)[k], HunkHeader)})

PreLines(hunk) == OriginalLines(PreImage(hunk))

PostLines(hunk) == OriginalLines(PostImage(hunk))

\* The 0-based lines of buffer at which the block of lines stands.
Occurrences(block, buffer) ==
    {p \in 0..(Len(buffer) - Len(block)) : Slice(buffer, p, p + Len(block)) = block}

ReplaceAt(buffer, p, n, post) ==
    Slice(buffer, 0, p) \o post \o Slice(buffer, p + n, Len(buffer))

\* The buffers that replacing, hunk after hunk, one occurrence of the
\* pre-image by the post-image can give.
RECURSIVE ExpectedBuffers(_, _, _)
ExpectedBuffers(buffers, hs, k) ==
    IF k > Len(hs) THEN buffers
    ELSE ExpectedBuffers(
            UNION {{ReplaceAt(b, p, Len(PreLines(hs[k])), PostLines(hs[k])) :
                       p \in Occurrences(PreLines(hs[k]), b)} : b \in buffers},
            hs, k + 1)

ExactPreImage ==
    /\ confidence_threshold = ROne
    /\ ValidDiffText(diff_content)
    /\ hunks # <<>>
    /\ \A k \in 1..Len(hunks) :
          /\ PreLines(hunks[k]) # <<>>
          /\ Occurrences(PreLines(hunks[k]), Lines(original_content)) # {}

\* C1: with the default threshold, when the file holds the pre-image of
\* every hunk of a valid diff as consecutive lines, apply_diff returns
\* Success and the content is the file with each pre-image replaced by the
\* post-image.
C1_ExactPreImageApplies ==
    (pc \in {"done", "fault"} /\ ExactPreImage)
        => /\ pc = "done"
           /\ outcome.kind = "Success"
           /\ outcome.content[1] \in
                 {Join(b) : b \in ExpectedBuffers({Lines(original_content)}, hunks, 1)}

\* C2: apply_diff of NewUnifiedDiffStrategy never faults, whatever the file
\* and the diff.
C2_NeverFaults == pc # "fault"

LastRan(call) == IF call.ran = <<>> THEN "" ELSE call.ran[Len(call.ran)]

\* C3: apply_git_fallback returns confidence 1.0 only when every git
\* subprocess succeeded; when one of them failed, the confidence is 0.0 and
\* the lines are those of the input content.
C3_GitConfidenceOnlyOnSuccess ==
    \A c \in CallIds :
        (calls[c].pc = "returned" /\ LastRan(calls[c]) = "git-fallback")
            => /\ REq(calls[c].result.confidence, ROne) => calls[c].all_ok
               /\ ~calls[c].all_ok
                     => /\ REq(calls[c].result.confidence, RZero)
                        /\ calls[c].result.result = calls[c].content

\* C4: a call that is not inside apply_git_fallback holds no temporary
\* directory (the directory of a returned call is removed, with its file),
\* and a call inside it works in a directory that is its own.
C4_TempDirRemovedAndOwn ==
    /\ \A c \in CallIds :
          IF calls[c].pc \in {"git", "git_drop"}
          THEN calls[c].temp_dir \in DirNames /\ dirs[calls[c].temp_dir] = c
          ELSE \A d \in DirNames : dirs[d] # c
    /\ \A d \in DirNames : dirs[d] = 0 => files[d] = None

\* A call has returned from the git fallback with confidence 1.0 while
\* another call is inside it.
C4_Witness ==
    \E c, c2 \in CallIds :
        /\ c # c2
        /\ calls[c].pc = "returned"
        /\ calls[c].temp_dir # 0
        /\ REq(calls[c].result.confidence, ROne)
        /\ calls[c2].pc = "git"
        /\ calls[c2].step > 4

\* C5: below the threshold only the git fallback runs; otherwise context
\* matching runs first, its result is returned exactly when its confidence
\* reaches the threshold, and the git fallback's result is returned in the
\* remaining case.
C5_Escalation ==
    \A c \in CallIds :
        /\ RLt(calls[c].confidence, calls[c].confidence_threshold)
              => \A k \in 1..Len(calls[c].ran) : calls[c].ran[k] # "context"
        /\ calls[c].pc = "returned"
              => IF RLt(calls[c].confidence, calls[c].confidence_threshold)
                 THEN /\ calls[c].ran = <<"git-fallback">>
                      /\ calls[c].result.strategy = "git-fallback"
                 ELSE IF RGe(calls[c].context_result.confidence,
                             calls[c].confidence_threshold)
                 THEN /\ calls[c].ran = <<"context">>
                      /\ calls[c].result = calls[c].context_result
                 ELSE /\ calls[c].ran = <<"context", "git-fallback">>
                      /\ calls[c].result.strategy = "git-fallback"

\* A call went through context matching and then the git fallback, and
\* another went straight to the git fallback.
C5_Witness ==
    \E c, c2 \in CallIds :
        /\ calls[c].pc = "returned"
        /\ calls[c].ran = <<"context", "git-fallback">>
        /\ calls[c2].pc = "returned"
        /\ calls[c2].ran = <<"git-fallback">>

\* An edit that apply_diff takes.
Taken(e) == e.op = "edit" /\ ~e.fault /\ RGe(e.confidence, confidence_threshold)

\* C6: the first hunk is searched in the lines of the file; every later
\* hunk is searched right after the edit of the hunk before it was taken,
\* in the buffer that edit gave; and a hunk is edited on the buffer it was
\* searched in.
C6_HunksOnProgressiveBuffer ==
    \A i \in 1..Len(history) :
        /\ (history[i].op = "search" /\ history[i].sub = 0 /\ history[i].hunk = 1)
              => i = 1 /\ history[i].content = Lines(original_content)
        /\ (history[i].op = "search" /\ history[i].sub = 0 /\ history[i].hunk > 1)
              => /\ i > 1
                 /\ Taken(history[i - 1])
                 /\ history[i - 1].hunk = history[i].hunk - 1
                 /\ history[i].content = history[i - 1].result
        /\ (history[i].op = "edit" /\ history[i].sub = 0)
              => /\ i > 1
                 /\ history[i - 1].op = "search"
                 /\ history[i - 1].hunk = history[i].hunk
                 /\ history[i - 1].sub = 0
                 /\ history[i].content = history[i - 1].content

\* The second hunk was searched in a buffer that is not the file, and the
\* call returned Success.
C6_Witness ==
    /\ pc = "done"
    /\ outcome.kind = "Success"
    /\ \E i \in 1..Len(history) :
          /\ history[i].op = "search"
          /\ history[i].hunk = 2
          /\ history[i].content # Lines(original_content)

\* C7: once the edit of a sub-hunk is taken, its result is the buffer the
\* next sub-hunk is searched in and edited on; after the last sub-hunk it
\* is the buffer carried forward: the next hunk is searched in it, or it
\* is the content of Success.
C7_SubHunksChained ==
    \A i \in 1..Len(history) :
        (Taken(history[i]) /\ history[i].sub >= 1)
            => IF history[i].sub < Len(SplitHunk(hunks[history[i].hunk]))
               THEN IF i = Len(history)
                    THEN pc = "sub_search" /\ sub_hunk_result = history[i].result
                    ELSE /\ history[i + 1].op = "search"
                         /\ history[i + 1].hunk = history[i].hunk
                         /\ history[i + 1].sub = history[i].sub + 1
                         /\ history[i + 1].content = history[i].result
               ELSE IF i = Len(history)
                    THEN \/ pc = "sub_search" /\ sub_hunk_result = history[i].result
                         \/ pc = "search" /\ result = history[i].result
                         \/ pc = "done" /\ outcome = Success(Join(history[i].result))
                    ELSE /\ history[i + 1].op = "search"
                         /\ history[i + 1].hunk = history[i].hunk + 1
                         /\ history[i + 1].sub = 0
                         /\ history[i + 1].content = history[i].result

\* A hunk found below the threshold as a whole was applied as two
\* sub-hunks, and the call returned Success with their result.
C7_Witness ==
    /\ pc = "done"
    /\ outcome.kind = "Success"
    /\ Len(history) = 5
    /\ RLt(history[1].confidence, confidence_threshold)
    /\ Taken(history[3]) /\ history[3].sub = 1
    /\ Taken(history[5]) /\ history[5].sub = 2
    /\ history[5].result # history[3].result
    /\ history[3].result # Lines(original_content)

\* A search or an edit on which apply_diff gives the hunk up.
GivesUp(e) ==
    /\ ~e.fault
    /\ ~RGe(e.confidence, confidence_threshold)
    /\ e.op = "edit" \/ e.sub >= 1

\* C8: when the edit of a hunk, or the search or the edit of one of its
\* sub-hunks, stays below the threshold, nothing is processed after it and
\* the call returns Failure with a diagnostic and no content.
C8_FailureStopsWithoutContent ==
    \A i \in 1..Len(history) :
        GivesUp(history[i])
            => /\ i = Len(history)
               /\ pc = "done"
               /\ outcome.kind = "Failure"
               /\ outcome.error # ""
               /\ outcome.content = None

\* The first hunk was applied, the second was given up, and the call
\* returned Failure.
C8_Witness ==
    /\ pc = "done"
    /\ outcome.kind = "Failure"
    /\ Len(history) > 2
    /\ Taken(history[2])
    /\ history[2].result # Lines(original_content)
    /\ GivesUp(history[Len(history)])
    /\ history[Len(history)].hunk = 2

\* Normalization as the specification words it: every run of whitespace
\* becomes one space, and the ends are trimmed.
RECURSIVE CollapseRuns(_, _)
CollapseRuns(t, k) ==
    IF k > Len(t) THEN <<>>
    ELSE (IF k > 1 /\ t[k] = " " /\ t[k - 1] = " " THEN <<>> ELSE <<t[k]>>)
         \o CollapseRuns(t, k + 1)

SpecNormalize(t) == Trim(CollapseRuns(BlankWhitespace(t), 1))

SrReturned == sr.pc \in {"done", "fault"}

SrCapturedBlock == Captures(sr.diff_content) # None

SrSearch == SearchContent(sr.diff_content, Captures(sr.diff_content)[1])

SrReplace == ReplaceContent(sr.diff_content, Captures(sr.diff_content)[1])

\* The 0-based lines at which a window of as many lines as the search text
\* equals it after normalization.
EqualWindows(original_lines, search, n) ==
    {i \in 0..(Len(original_lines) - n) :
        SpecNormalize(Join(Slice(original_lines, i, i + n))) = SpecNormalize(search)}

SplicedAt(original_lines, i, n, replace) ==
    Join(Slice(original_lines, 0, i) \o Lines(replace)
         \o Slice(original_lines, i + n, Len(original_lines)))

\* C9: without line hints, when exactly one window of as many lines as the
\* search text equals it after normalization, apply_diff returns Success
\* and the content is the lines before the window, the lines of the replace
\* text, the lines after the window.
C9_ExactWindowSpliced ==
    (/\ SrReturned
     /\ sr.start_line = None /\ sr.end_line = None
     /\ SrCapturedBlock
     /\ Lines(SrSearch) # <<>>
     /\ Cardinality(EqualWindows(Lines(sr.original_content), SrSearch,
                                 Len(Lines(SrSearch)))) = 1)
        => /\ sr.pc = "done"
           /\ sr.outcome.kind = "Success"
           /\ \E i \in EqualWindows(Lines(sr.original_content), SrSearch,
                                    Len(Lines(SrSearch))) :
                 sr.outcome.content =
                     Some(SplicedAt(Lines(sr.original_content), i,
                                    Len(Lines(SrSearch)), SrReplace))

SameLineDiagnostic ==
    /\ sr.pc = "done"
    /\ sr.outcome.kind = "Failure"
    /\ sr.outcome.error =
          "Empty search content requires start_line and end_line to be the same"

\* C10 as claimed: with an empty search section and start_line # end_line,
\* also when only one of the two is supplied, apply_diff returns the
\* Failure that asks for start_line and end_line to be the same.
C10_EmptySearchAnyHints ==
    (SrReturned /\ SrCapturedBlock /\ SrSearch = <<>>
        /\ sr.start_line # sr.end_line)
        => SameLineDiagnostic

\* C10 as amended: with an empty search section, a start_line that is
\* supplied and an end_line that differs from it or is not supplied,
\* apply_diff returns the Failure that asks for start_line and end_line to
\* be the same; when start_line is not supplied it returns the Failure that
\* asks for start_line.
C10_EmptySearchWithStartLine ==
    (SrReturned /\ SrCapturedBlock /\ SrSearch = <<>>)
        => /\ (sr.start_line # None /\ sr.start_line # sr.end_line)
                 => SameLineDiagnostic
           /\ sr.start_line = None
                 => /\ sr.pc = "done"
                    /\ sr.outcome.kind = "Failure"
                    /\ sr.outcome.error =
                          "Empty search content requires start_line to be specified"

\* An empty search section with start_line = 1 and no end_line was refused.
C10_Witness ==
    /\ SrReturned /\ SrCapturedBlock /\ SrSearch = <<>>
    /\ sr.start_line = Some(1)
    /\ sr.end_line = None
    /\ SameLineDiagnostic

\* The call returned the Failure that reports the line range.
InvalidRangeDiagnostic ==
    /\ sr.pc = "done"
    /\ sr.outcome.kind = "Failure"
    /\ sr.outcome.error = "Line range is invalid"

\* C11: with a search text that is not empty and both hints supplied, when
\* start_line or end_line is greater than the number of lines of the file,
\* apply_diff returns the Failure that reports the invalid line range.
C11_OutOfFileHintRefused ==
    (/\ SrReturned /\ SrCapturedBlock
     /\ Lines(SrSearch) # <<>>
     /\ sr.start_line # None /\ sr.end_line # None
     /\ \/ sr.start_line[1] > Len(Lines(sr.original_content))
        \/ sr.end_line[1] > Len(Lines(sr.original_content)))
        => InvalidRangeDiagnostic

\* The diff has one hunk, the hunk is one removed line and nothing else, and
\* the line stands at two places of the file or more.
RepeatedLineRemoval ==
    /\ Len(hunks) = 1
    /\ Len(hunks[1]) = 1
    /\ hunks[1][1].change_type = Remove
    /\ Cardinality(Occurrences(PreLines(hunks[1]), Lines(original_content))) >= 2

\* C12: what apply_diff returns for a hunk with no context line and one
\* removed line that stands at two places of the file or more is Failure.
C12_RepeatedLineRemovalFails ==
    (pc = "done" /\ RepeatedLineRemoval) => outcome.kind = "Failure"

EvalReturned(fn) == eval.pc = "returned" /\ eval.fn = fn

\* C13: get_similarity gives the same value when its two texts are
\* exchanged, and a value between 0 and 1, the empty text included.
C13_SimilaritySymmetricBounded ==
    EvalReturned("get_similarity")
        => /\ REq(eval.value, GetSimilarity(eval.args[2], eval.args[1]))
           /\ RGe(eval.value, RZero)
           /\ RLe(eval.value, ROne)

\* C14: two texts that are equal once every run of whitespace is one space
\* and the ends are trimmed have similarity 1.0.
C14_WhitespaceRunsIgnored ==
    (EvalReturned("get_similarity")
        /\ SpecNormalize(eval.args[1]) = SpecNormalize(eval.args[2]))
        => REq(eval.value, ROne)

\* The call went from context matching to the git fallback, the pre-image
\* of its hunk stands at one place of its content, and the fallback gave
\* confidence 1.0.
GitRecovered(call) ==
    /\ call.pc = "returned"
    /\ call.ran = <<"context", "git-fallback">>
    /\ Cardinality(Occurrences(PreLines(call.hunk), call.content)) = 1
    /\ REq(call.result.confidence, ROne)

\* C15: when context matching scored below the threshold and the change is
\* unambiguous, what apply_git_fallback returns with confidence 1.0 is the
\* whole content with the pre-image of the hunk replaced in place by its
\* post-image.
C15_GitFallbackSplices ==
    \A c \in CallIds :
        GitRecovered(calls[c])
            => \E p \in Occurrences(PreLines(calls[c].hunk), calls[c].content) :
                  calls[c].result.result =
                      ReplaceAt(calls[c].content, p, Len(PreLines(calls[c].hunk)),
                                PostLines(calls[c].hunk))

\* The changes an event of the history is about: a hunk, or one of its
\* sub-hunks.
ChangesOf(e) == IF e.sub = 0 THEN hunks[e.hunk] ELSE SplitHunk(hunks[e.hunk])[e.sub]

\* after is before with one region of at most n lines, at p, replaced: the
\* lines before the region and the lines after it are kept, in their order.
KeepsOutside(before, after, n) ==
    \E p \in 0..Len(before) :
        \E q \in {MinOf({p + n, Len(before)})} :
            /\ Len(after) >= p + Len(before) - q
            /\ Slice(after, 0, p) = Slice(before, 0, p)
            /\ Slice(after, Len(after) - (Len(before) - q), Len(after))
                  = Slice(before, q, Len(before))

\* C16: when apply_diff returns Success, every edit it took kept the lines
\* of its buffer outside one region as long as the pre-image of the hunk.
C16_LinesOutsideHunksKept ==
    (pc = "done" /\ outcome.kind = "Success")
        => \A i \in 1..Len(history) :
              Taken(history[i])
                  => KeepsOutside(history[i].content, history[i].result,
                                  Len(PreLines(ChangesOf(history[i]))))

ChangePlaces(changes) == {k \in 1..Len(changes) : IsChange(changes[k])}

\* The context lines before the first Add/Remove change and after the last.
LeadingContext(changes) == MinOf(ChangePlaces(changes)) - 1

TrailingContext(changes) == Len(changes) - MaxOf(ChangePlaces(changes))

ContextWithin(changes, limit) ==
    /\ ChangePlaces(changes) # {}
    /\ LeadingContext(changes) <= limit
    /\ TrailingContext(changes) <= limit

\* C17: every hunk parse_unified_diff returns has at most 6 context lines
\* before its first change and at most 6 after its last, the last hunk of
\* the diff included.
C17_ParsedHunksTrimmed ==
    (EvalReturned("parse_unified_diff") /\ ~eval.value.fault)
        => \A k \in 1..Len(eval.value.hunks) :
              ContextWithin(eval.value.hunks[k], MAX_CONTEXT_LINES)

\* C18: every sub-hunk split_hunk returns has at most 3 context lines
\* before its first change and at most 3 after its last.
C18_SubHunksWithinContext ==
    EvalReturned("split_hunk")
        => \A k \in 1..Len(eval.value) :
              ContextWithin(eval.value[k], SPLIT_CONTEXT_LINES)

\* The whitespace characters a text starts with.
LeadingWhitespace(text) ==
    SubSeq(text, 1,
           MinOf({k \in 0..Len(text) : k = Len(text) \/ ~IsWhitespace(text[k + 1])}))

IndentSplitsLine(change) ==
    /\ change.indent = LeadingWhitespace(change.original_line)
    /\ change.content = SubSeq(change.original_line, Len(change.indent) + 1,
                               Len(change.original_line))
    /\ change.indent \o change.content = change.original_line

\* C19: in every Change parse_unified_diff makes of a line that starts with
\* " ", "+" or "-", indent is the whitespace the text of the line starts
\* with, content is the rest of the text, and indent followed by content is
\* original_line.
C19_IndentIsLeadingWhitespace ==
    (/\ EvalReturned("parse_unified_diff")
     /\ ValidDiffText(eval.args[1])
     /\ ~eval.value.fault)
        => \A k \in 1..Len(eval.value.hunks) :
              \A j \in 1..Len(eval.value.hunks[k]) :
                 IndentSplitsLine(eval.value.hunks[k][j])

\* The lines of content at [index, index + n), joined, are the search text.
BlockAt(content, index, n, search_str) ==
    /\ index >= 0
    /\ index + n <= Len(content)
    /\ Join(Slice(content, index, index + n)) = search_str

\* C20: when the haystack holds the search lines as a block at start_index
\* or after it and find_exact_match returns a hit, its index is the line of
\* the haystack at which such a block begins.
C20_ExactIndexIsBlockStart ==
    (/\ EvalReturned("find_exact_match")
     /\ \E p \in Occurrences(Lines(eval.args[1]), eval.args[2]) : p >= eval.args[3]
     /\ ~eval.value.fault
     /\ eval.value.index # -1)
        => BlockAt(eval.args[2], eval.value.index, Len(Lines(eval.args[1])),
                   eval.args[1])

CountOf(changes, types) ==
    Cardinality({k \in 1..Len(changes) : changes[k].change_type \in types})

\* The lines of the content a hunk stands on: one for each Context and each
\* Remove change.
Spanned(changes) == CountOf(changes, {Context, Remove})

HasBlankChange(changes) ==
    \E k \in 1..Len(changes) : IsChange(changes[k]) /\ changes[k].original_line = <<>>

\* C21: when the hunk is matched at a position of the content and the lines
\* it stands on all exist, apply_context_matching returns a result of as many
\* lines as the content has, less one for each Remove change and plus one
\* for each Add change, a removed or added blank line included.
C21_LineCountFollowsChanges ==
    (/\ EvalReturned("apply_context_matching")
     /\ eval.args[3] + Spanned(eval.args[1]) <= Len(eval.args[2]))
        => /\ ~eval.value.fault
           /\ Len(eval.value.result) =
                 Len(eval.args[2]) - CountOf(eval.args[1], {Remove})
                                   + CountOf(eval.args[1], {Add})

\* The Context changes of the hunk that stand past the last line of the
\* content when the hunk is laid at match_position.
PastEnd(changes, content, match_position) ==
    {k \in 1..Len(changes) :
        /\ changes[k].change_type = Context
        /\ match_position + Spanned(SubSeq(changes, 1, k - 1)) >= Len(content)}

\* C22: when context lines of the hunk stand past the end of the content,
\* apply_context_matching completes without a fault and each of these lines
\* is in the result, after the match position, as indent followed by
\* content.
C22_ContextPastEndSynthesized ==
    (/\ EvalReturned("apply_context_matching")
     /\ ~HasBlankChange(eval.args[1])
     /\ PastEnd(eval.args[1], eval.args[2], eval.args[3]) # {})
        => /\ ~eval.value.fault
           /\ \A k \in PastEnd(eval.args[1], eval.args[2], eval.args[3]) :
                 \E i \in (eval.args[3] + 1)..Len(eval.value.result) :
                    eval.value.result[i] =
                       eval.args[1][k].indent \o eval.args[1][k].content

\* Both hints are supplied and 1 <= start_line <= end_line <= the number of
\* lines of the file.
ValidHints(original_lines) ==
    /\ sr.start_line # None /\ sr.end_line # None
    /\ 1 <= sr.start_line[1]
    /\ sr.start_line[1] <= sr.end_line[1]
    /\ sr.end_line[1] <= Len(original_lines)

HintedWindow(original_lines) == Slice(original_lines, sr.start_line[1] - 1, sr.end_line[1])

\* C23: with a search text that is not empty and valid hints, when the
\* similarity of the hinted window reaches the threshold, apply_diff
\* returns Success and the content is the lines before start_line, the
\* lines of the replace text, the lines after end_line, whatever the number
\* of search lines.
C23_HintedWindowReplaced ==
    (/\ SrReturned /\ SrCapturedBlock
     /\ Lines(SrSearch) # <<>>
     /\ ValidHints(Lines(sr.original_content))
     /\ RGe(GetSimilarity(Join(HintedWindow(Lines(sr.original_content))), SrSearch),
            sr.fuzzy_threshold))
        => /\ sr.pc = "done"
           /\ sr.outcome.kind = "Success"
           /\ sr.outcome.content =
                 Some(SplicedAt(Lines(sr.original_content), sr.start_line[1] - 1,
                                sr.end_line[1] - sr.start_line[1] + 1, SrReplace))

\* No window of as many lines as the search text fits: the search text has
\* more lines than the file, or than the hinted range.
NoWindowFits(original_lines, n) ==
    \/ n > Len(original_lines)
    \/ /\ ValidHints(original_lines)
       /\ n > sr.end_line[1] - sr.start_line[1] + 1

\* C24: with a search text that is not empty and for which no window fits,
\* apply_diff returns the Failure that reports the similarity achieved and
\* the one required, with the similarity, the threshold and the search text
\* in its details.
C24_NoWindowFailure ==
    (/\ SrReturned /\ SrCapturedBlock
     /\ Lines(SrSearch) # <<>>
     /\ NoWindowFits(Lines(sr.original_content), Len(Lines(SrSearch))))
        => /\ sr.pc = "done"
           /\ sr.outcome.kind = "Failure"
           /\ sr.outcome.error = "No sufficiently similar match found"
           /\ sr.outcome.details # None
           /\ sr.outcome.details[1].threshold = sr.fuzzy_threshold
           /\ sr.outcome.details[1].search_content = SrSearch

\* The positions from start_index on whose window of n lines has a score
\* that is positive and reaches the threshold: the windows
\* find_similarity_match hands to validate_context_lines.
Candidates(search_str, content, start_index, n, threshold) ==
    {i \in start_index..(Len(content) - n) :
        /\ RGe(EvaluateSimilarity(search_str, Join(Slice(content, i, i + n))), threshold)
        /\ RGt(EvaluateSimilarity(search_str, Join(Slice(content, i, i + n))), RZero)}

\* validate_context_lines with the threshold chosen by the number of lines
\* of the file.
FileSizedContextScore(search_str, window_str, file_length, threshold) ==
    ContextScore(
        EvaluateSimilarity(
            Join(SelectSeq(Lines(search_str), LAMBDA line : ~StartsWith(line, <<"-">>))),
            window_str),
        GetAdaptiveThreshold(file_length, threshold),
        RMul(EvaluateContentUniqueness(search_str, Lines(window_str)),
             UNIQUE_CONTENT_BOOST))

FileSizedConfidence(search_str, window_str, file_length, threshold) ==
    RMin(EvaluateSimilarity(search_str, window_str),
         FileSizedContextScore(search_str, window_str, file_length, threshold))

\* C25: when one window of the file is validated, the confidence
\* find_similarity_match returns is the smaller of the window's score and
\* its context score, and in the context score the similarity is compared
\* with the base threshold when the file has at most 1000 lines and with
\* max(base - 0.07, 0.8) when it has more, whatever the number of lines of
\* the window.
C25_ThresholdFollowsFileSize ==
    (/\ EvalReturned("find_similarity_match")
     /\ ~eval.value.fault
     /\ Lines(eval.args[1]) # <<>>
     /\ Cardinality(Candidates(eval.args[1], eval.args[2], eval.args[3],
                               Len(Lines(eval.args[1])), eval.args[4])) = 1)
        => \A i \in Candidates(eval.args[1], eval.args[2], eval.args[3],
                               Len(Lines(eval.args[1])), eval.args[4]) :
              /\ eval.value.index = i
              /\ eval.value.confidence =
                    FileSizedConfidence(
                        eval.args[1],
                        Join(Slice(eval.args[2], i, i + Len(Lines(eval.args[1])))),
                        Len(eval.args[2]), eval.args[4])

\* A mention starts at character k (1-based) of the text: a "#" that is the
\* first character or follows whitespace, or the first character of "http".
MentionStart(text, k) ==
    \/ text[k] = "#" /\ (k = 1 \/ IsWhitespace(text[k - 1]))
    \/ StartsWith(SubSeq(text, k, Len(text)), <<"h", "t", "t", "p">>)

\* The first space, newline or tab at or after k, or the place after the
\* last character.
MentionEnd(text, k) ==
    MinOf({j \in k..(Len(text) + 1) : j = Len(text) + 1 \/ text[j] \in {" ", "\n", "\t"}})

\* The mentions of the text from character k on: each starts at the first
\* start after the mention before it ended and runs unchanged to its end.
RECURSIVE MentionsFrom(_, _)
MentionsFrom(text, k) ==
    IF {j \in k..Len(text) : MentionStart(text, j)} = {} THEN <<>>
    ELSE <<SubSeq(text, MinOf({j \in k..Len(text) : MentionStart(text, j)}),
                  MentionEnd(text, MinOf({j \in k..Len(text) : MentionStart(text, j)})) - 1)>>
         \o MentionsFrom(text, MentionEnd(text, MinOf({j \in k..Len(text) :
                                                          MentionStart(text, j)})))

\* C26: extract_mentions returns, in their order, the mentions of the
\* text: each starts at a "#" that is the first character or follows
\* whitespace, or at an occurrence of "http", and runs unchanged to the next
\* space, newline or tab or to the end; a text with no such start gives
\* the empty list.
C26_MentionsRunUnchanged ==
    EvalReturned("extract_mentions")
        => /\ ~eval.value.fault
           /\ eval.value.mentions = MentionsFrom(eval.args[1], 1)

InGitFallback(call) ==
    call.pc \in {"git_tempdir", "git", "git_drop"} \/ LastRan(call) = "git-fallback"

\* C27: inside NewUnified apply_diff, every call of apply_edit, for a whole
\* hunk or for a sub-hunk, carries a search confidence at or above the
\* threshold of the strategy; so the git fallback runs only after context
\* matching ran on that hunk and scored below the threshold, never straight
\* away.
C27_EditOnlyAboveThreshold ==
    \A c \in CallIds :
        calls[c].pc # "idle"
            => /\ pc \in {"await", "sub_await"}
               /\ calls[c].confidence_threshold = confidence_threshold
               /\ RGe(calls[c].confidence, confidence_threshold)
               /\ InGitFallback(calls[c])
                     => /\ calls[c].ran[1] = "context"
                        /\ RLt(calls[c].context_result.confidence, confidence_threshold)

\* The edit of a whole hunk went through context matching, which scored
\* below the threshold, and then through the git fallback.
C27_Witness ==
    /\ pc = "await"
    /\ calls[1].pc = "returned"
    /\ calls[1].ran = <<"context", "git-fallback">>
    /\ RLt(calls[1].context_result.confidence, confidence_threshold)

\* The Add and Remove changes of a hunk, in order.
EditsOf(changes) == SelectSeq(changes, IsChange)

\* C28: for a hunk with at least one Add or Remove change, split_hunk
\* returns at least one sub-hunk, every sub-hunk has an Add or Remove
\* change, and the Add and Remove changes of the sub-hunks, taken in order,
\* are those of the hunk, each once.
C28_SplitKeepsChanges ==
    (EvalReturned("split_hunk") /\ HasChange(eval.args[1]))
        => /\ eval.value # <<>>
           /\ \A k \in 1..Len(eval.value) : HasChange(eval.value[k])
           /\ Concat([k \in 1..Len(eval.value) |-> EditsOf(eval.value[k])])
                 = EditsOf(eval.args[1])

\* split_hunk returned two sub-hunks for a hunk with two changes.
C28_Witness ==
    /\ EvalReturned("split_hunk")
    /\ Len(EditsOf(eval.args[1])) = 2
    /\ Len(eval.value) = 2

\* C29: once start_task has returned successfully and the loop of
\* initiate_task_loop is entered, the loop is eventually left and the call
\* returns Ok.
C29_TaskLoopReturns == (cline.pc = "loop") ~> (cline.pc = "returned")

\* C30: after a run of say calls with partial = Some(true) and a say call
\* with partial = Some(false) that follows it, cline_messages is the
\* messages held before the run followed by one message for the run: it has
\* the text of the last call, partial = Some(false) and the time of the
\* first call of the run.
C30_PartialRunCollapses ==
    cline.closed.done
        => cline.cline_messages =
              Append(cline.closed.before,
                     SayMessage(cline.closed.ts, cline.closed.text, "text", Some(FALSE)))

====
